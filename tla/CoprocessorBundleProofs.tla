----------------------- MODULE CoprocessorBundleProofs -----------------------
(***************************************************************************)
(* What an accepted bundle binds, for any number of signatures, any values *)
(* in any cells, any pads and any width of a Ligero row.                   *)
(*                                                                         *)
(* Prover and verifier walk the same instances in loops of their own.  The *)
(* invariant follows each loop and says, for the instances it has passed,  *)
(* where their values lie, what was taken of the sent values and which     *)
(* claims were made of them; the opened batch then equates what was taken  *)
(* with the committed cells.                                               *)
(*                                                                         *)
(* The second half is the converse: of an honest run a further invariant   *)
(* says what every phase has made, value for value, and each of the        *)
(* verifier's checks is shown to hold of it.                               *)
(***************************************************************************)
EXTENDS CoprocessorBundle, SequenceTheorems, WellFoundedInduction, TLAPS

Labels == {"c1", "c2", "c3", "c11", "c12", "c14", "mac"}
Kept == {"c11", "c12", "c14"}

-----------------------------------------------------------------------------
(* Sequences of anything.                                                  *)

IsSequence(s) == Len(s) \in Nat /\ s = [i \in 1 .. Len(s) |-> s[i]]

LEMMA Tabulated ==
    ASSUME NEW u, NEW n \in Nat, u = [i \in 1 .. n |-> u[i]]
    PROVE  IsSequence(u) /\ Len(u) = n
<1> DEFINE S == {u[i] : i \in 1 .. n}
<1>1. \A i \in 1 .. n : u[i] \in S
  OBVIOUS
<1> HIDE DEF S
<1>2. [i \in 1 .. n |-> u[i]] \in Seq(S) /\ Len([i \in 1 .. n |-> u[i]]) = n
  BY <1>1
<1>3. Len(u) = n
  BY <1>2
<1> QED BY <1>3 DEF IsSequence

LEMMA SequenceIn ==
    ASSUME NEW s, IsSequence(s), NEW S, \A i \in 1 .. Len(s) : s[i] \in S
    PROVE  s \in Seq(S)
<1>1. [i \in 1 .. Len(s) |-> s[i]] \in Seq(S)
  BY DEF IsSequence
<1> QED BY <1>1 DEF IsSequence

LEMMA InIsSequence ==
    ASSUME NEW S, NEW s \in Seq(S)
    PROVE  IsSequence(s) /\ \A i \in 1 .. Len(s) : s[i] \in S
<1>1. Len(s) \in Nat /\ DOMAIN s = 1 .. Len(s) /\ s \in [1 .. Len(s) -> S]
  BY LenProperties
<1> QED BY <1>1 DEF IsSequence

LEMMA SameSequence ==
    ASSUME NEW s, NEW t, IsSequence(s), IsSequence(t), Len(s) = Len(t),
           \A i \in 1 .. Len(s) : s[i] = t[i]
    PROVE  s = t
<1>1. [i \in 1 .. Len(s) |-> s[i]] = [i \in 1 .. Len(t) |-> t[i]]
  OBVIOUS
<1> QED BY <1>1 DEF IsSequence

LEMMA Joined ==
    ASSUME NEW s, NEW t, IsSequence(s), IsSequence(t)
    PROVE  /\ IsSequence(s \o t)
           /\ Len(s \o t) = Len(s) + Len(t)
           /\ \A i \in 1 .. Len(s) : (s \o t)[i] = s[i]
           /\ \A i \in 1 .. Len(t) : (s \o t)[Len(s) + i] = t[i]
           /\ \A i \in Len(s) + 1 .. Len(s) + Len(t) : (s \o t)[i] = t[i - Len(s)]
<1> DEFINE S == {s[i] : i \in 1 .. Len(s)} \cup {t[i] : i \in 1 .. Len(t)}
           u == s \o t
<1>1. (\A i \in 1 .. Len(s) : s[i] \in S) /\ (\A i \in 1 .. Len(t) : t[i] \in S)
  OBVIOUS
<1> HIDE DEF S
<1>2. s \in Seq(S) /\ t \in Seq(S)
  BY <1>1, SequenceIn
<1>3. Len(s) \in Nat /\ Len(t) \in Nat
  BY DEF IsSequence
<1>4. /\ u \in Seq(S)
      /\ Len(u) = Len(s) + Len(t)
      /\ \A i \in 1 .. Len(s) + Len(t) : u[i] = IF i <= Len(s) THEN s[i] ELSE t[i - Len(s)]
  BY <1>2, ConcatProperties
<1> HIDE DEF u
<1>5. IsSequence(u)
  BY <1>4, InIsSequence
<1>6. \A i \in 1 .. Len(s) : u[i] = s[i]
  BY <1>3, <1>4
<1>7. \A i \in 1 .. Len(t) : u[Len(s) + i] = t[i]
  BY <1>3, <1>4
<1>8. \A i \in Len(s) + 1 .. Len(s) + Len(t) : u[i] = t[i - Len(s)]
  BY <1>3, <1>4
<1> QED BY <1>4, <1>5, <1>6, <1>7, <1>8 DEF u

LEMMA Single ==
    ASSUME NEW x
    PROVE  /\ IsSequence(<<>>) /\ Len(<<>>) = 0
           /\ IsSequence(<<x>>) /\ Len(<<x>>) = 1 /\ <<x>>[1] = x
BY DEF IsSequence

LEMMA Appended ==
    ASSUME NEW s, NEW x, IsSequence(s)
    PROVE  /\ IsSequence(Append(s, x))
           /\ Len(Append(s, x)) = Len(s) + 1
           /\ \A i \in 1 .. Len(s) : Append(s, x)[i] = s[i]
           /\ Append(s, x)[Len(s) + 1] = x
<1> DEFINE S == {s[i] : i \in 1 .. Len(s)} \cup {x}
<1>1. (\A i \in 1 .. Len(s) : s[i] \in S) /\ x \in S
  OBVIOUS
<1> HIDE DEF S
<1>2. s \in Seq(S)
  BY <1>1, SequenceIn
<1> DEFINE u == Append(s, x)
<1>3. /\ u \in Seq(S) /\ Len(u) = Len(s) + 1 /\ \A i \in 1 .. Len(s) : u[i] = s[i]
      /\ u[Len(s) + 1] = x
  BY <1>1, <1>2, AppendProperties
<1> HIDE DEF u
<1>4. IsSequence(u)
  BY <1>3, InIsSequence
<1> QED BY <1>3, <1>4 DEF u

LEMMA Prepended ==
    ASSUME NEW s, IsSequence(s)
    PROVE  s \o <<>> = s /\ <<>> \o s = s
<1> DEFINE S == {s[i] : i \in 1 .. Len(s)}
<1>1. \A i \in 1 .. Len(s) : s[i] \in S
  OBVIOUS
<1> HIDE DEF S
<1>2. s \in Seq(S)
  BY <1>1, SequenceIn
<1> QED BY <1>2, ConcatEmptySeq

LEMMA Cut ==
    ASSUME NEW s, NEW m \in Int, NEW n \in Int, m <= n + 1
    PROVE  /\ IsSequence(SubSeq(s, m, n))
           /\ Len(SubSeq(s, m, n)) = n - m + 1
           /\ \A i \in 1 .. n - m + 1 : SubSeq(s, m, n)[i] = s[m + i - 1]
<1> DEFINE S == {s[i] : i \in m .. n}
<1>1. \A i \in m .. n : s[i] \in S
  OBVIOUS
<1> HIDE DEF S
<1> DEFINE u == SubSeq(s, m, n)
<1>2. /\ u \in Seq(S)
      /\ Len(u) = IF m <= n THEN n - m + 1 ELSE 0
      /\ \A i \in 1 .. n - m + 1 : u[i] = s[m + i - 1]
  BY <1>1, SubSeqProperties
<1> HIDE DEF u
<1>3. IsSequence(u)
  BY <1>2, InIsSequence
<1>4. Len(u) = n - m + 1
  BY <1>2
<1> QED BY <1>2, <1>3, <1>4 DEF u

-----------------------------------------------------------------------------
(* The cells of a family.                                                  *)

LEMMA FamilyLabels ==
    /\ Len(Families) = 6
    /\ \A f \in 1 .. 6 : Families[f] \in Labels /\ Families[f] # "mac"
    /\ Families[1] = "c1" /\ Families[2] = "c2" /\ Families[3] = "c3"
    /\ Families[4] = "c11" /\ Families[5] = "c12" /\ Families[6] = "c14"
<1>1. Families = <<"c1", "c2", "c3", "c11", "c12", "c14">>
  BY DEF Families
<1> QED BY <1>1 DEF Labels

LEMMA CellsOfLabel ==
    ASSUME NEW label \in Labels, label # "mac"
    PROVE  /\ DOMAIN Cells(label) = 1 .. Len(Cells(label))
           /\ Len(Cells(label)) \in 2 .. 6
<1>1. label = "c1" \/ label = "c2" \/ label = "c3" \/ label = "c11" \/ label = "c12" \/ label = "c14"
  BY DEF Labels
<1>2. \/ Cells(label) = <<"z", "r", "s", "qx", "qy">>
      \/ Cells(label) = <<"r", "s", "qx", "qy">>
      \/ Cells(label) = <<"z", "r", "s">>
      \/ Cells(label) = <<"ax", "ay", "bx", "by", "rx", "ry">>
      \/ Cells(label) = <<"rx", "r">>
  BY <1>1 DEF Cells
<1>3. CASE Cells(label) = <<"z", "r", "s", "qx", "qy">>
  BY <1>3
<1>4. CASE Cells(label) = <<"r", "s", "qx", "qy">>
  BY <1>4
<1>5. CASE Cells(label) = <<"z", "r", "s">>
  BY <1>5
<1>6. CASE Cells(label) = <<"ax", "ay", "bx", "by", "rx", "ry">>
  BY <1>6
<1>7. CASE Cells(label) = <<"rx", "r">>
  BY <1>7
<1> QED BY <1>2, <1>3, <1>4, <1>5, <1>6, <1>7

(* A name's position holds the name. *)
LEMMA PositionHolds ==
    ASSUME NEW label \in Labels, label # "mac", NEW i \in DOMAIN Cells(label)
    PROVE  /\ Position(label, Cells(label)[i]) \in 1 .. Len(Cells(label))
           /\ Cells(label)[Position(label, Cells(label)[i])] = Cells(label)[i]
BY CellsOfLabel DEF Position

(* The names of each family's cells, and those it publishes or sends. *)
LEMMA NamedCells ==
    /\ \A name \in {"z", "r", "s", "qx", "qy"} : \E i \in DOMAIN Cells("c1") : Cells("c1")[i] = name
    /\ \A name \in {"r", "s", "qx", "qy"} : \E i \in DOMAIN Cells("c2") : Cells("c2")[i] = name
    /\ \A name \in {"z", "r", "s"} : \E i \in DOMAIN Cells("c3") : Cells("c3")[i] = name
    /\ \A name \in {"ax", "ay", "bx", "by", "rx", "ry"} :
          /\ \E i \in DOMAIN Cells("c11") : Cells("c11")[i] = name
          /\ \E i \in DOMAIN Cells("c12") : Cells("c12")[i] = name
    /\ \A name \in {"rx", "r"} : \E i \in DOMAIN Cells("c14") : Cells("c14")[i] = name
<1>1. /\ Cells("c1") = <<"z", "r", "s", "qx", "qy">>
      /\ Cells("c2") = <<"r", "s", "qx", "qy">>
      /\ Cells("c3") = <<"z", "r", "s">>
      /\ Cells("c11") = <<"ax", "ay", "bx", "by", "rx", "ry">>
      /\ Cells("c12") = <<"ax", "ay", "bx", "by", "rx", "ry">>
      /\ Cells("c14") = <<"rx", "r">>
  BY DEF Cells
<1> QED BY <1>1

LEMMA PublicCells ==
    ASSUME NEW label \in Labels, label # "mac", NEW name \in PublicNames(label)
    PROVE  \E i \in DOMAIN Cells(label) : Cells(label)[i] = name
<1>1. label = "c1" \/ label = "c2" \/ label = "c3" \/ label = "c11" \/ label = "c12" \/ label = "c14"
  BY DEF Labels
<1> QED BY <1>1, NamedCells DEF PublicNames

-----------------------------------------------------------------------------
(* The instances.                                                          *)

(* The n-th signer's f-th family is instance 6 * n + f, and an mdoc's MAC is
   the last. *)
LEMMA ProverWalk ==
    ASSUME NEW call, IsCall(call)
    PROVE  /\ Len(call.projections) \in Nat /\ Len(call.projections) >= 1
           /\ IsSequence(ProverInstances(call))
           /\ Len(ProverInstances(call)) =
                 6 * Len(call.projections) + (IF call.mode = "mdoc" THEN 1 ELSE 0)
           /\ \A j \in 1 .. 6 * Len(call.projections) :
                 ProverInstances(call)[j]
                     = Instance((j - 1) \div 6, Families[((j - 1) % 6) + 1])
           /\ call.mode = "mdoc" =>
                 ProverInstances(call)[6 * Len(call.projections) + 1] = MacBatch
           /\ call.mode = "batch" =>
                 ProverInstances(call) = SignersInstances(Len(call.projections))
<1> DEFINE n == Len(call.projections)
           insts == ProverInstances(call)
<1>1. n \in Nat /\ n >= 1
  BY DEF IsCall
<1> DEFINE ecdsa == SignersInstances(n)
           last == IF call.mode = "mdoc" THEN <<MacBatch>> ELSE <<>>
           k == 6 * n
<1>2. ecdsa = [i \in 1 .. k |-> Instance((i - 1) \div 6, Families[((i - 1) % 6) + 1])] /\ k \in Nat
  BY <1>1, FamilyLabels DEF SignersInstances
<1>3. /\ IsSequence(last) /\ Len(last) = IF call.mode = "mdoc" THEN 1 ELSE 0
      /\ call.mode = "mdoc" => last[1] = MacBatch
      /\ call.mode = "batch" => last = <<>>
  BY Single
<1>4. insts = ecdsa \o last
  BY DEF ProverInstances
<1> HIDE DEF ecdsa, last, k, n, insts
<1>5. IsSequence(ecdsa) /\ Len(ecdsa) = k
  BY <1>2, Tabulated
<1>6. /\ IsSequence(insts) /\ Len(insts) = k + Len(last)
      /\ \A j \in 1 .. k : insts[j] = ecdsa[j]
      /\ \A j \in 1 .. Len(last) : insts[k + j] = last[j]
  BY <1>3, <1>4, <1>5, Joined
<1>7. call.mode = "mdoc" => insts[k + 1] = MacBatch
  BY <1>3, <1>6
<1>8. call.mode = "batch" => insts = ecdsa
  BY <1>3, <1>4, <1>5, Prepended
<1> QED BY <1>1, <1>2, <1>3, <1>6, <1>7, <1>8 DEF k, ecdsa, n, insts

LEMMA OneSigner ==
    ASSUME NEW s
    PROVE  /\ IsSequence(SignatureInstances(s)) /\ Len(SignatureInstances(s)) = 6
           /\ \A f \in 1 .. 6 : SignatureInstances(s)[f] = Instance(s, Families[f])
<1> DEFINE u == SignatureInstances(s)
<1>1. u = [f \in 1 .. 6 |-> Instance(s, Families[f])]
  BY FamilyLabels DEF SignatureInstances
<1> HIDE DEF u
<1>2. u = [f \in 1 .. 6 |-> u[f]]
  BY <1>1
<1>3. IsSequence(u) /\ Len(u) = 6
  BY <1>2, Tabulated
<1> QED BY <1>1, <1>3 DEF u

(* The two walks are one, however differently they are written. *)
LEMMA SameWalk ==
    ASSUME NEW call, IsCall(call)
    PROVE  VerifierInstances(call) = ProverInstances(call)
<1>1. CASE call.mode = "batch"
  BY <1>1, ProverWalk DEF VerifierInstances
<1>2. CASE call.mode = "mdoc"
  <2> DEFINE n == Len(call.projections)
             v == VerifierInstances(call)
             p == ProverInstances(call)
             third == IF n = 3 THEN SignatureInstances(2) ELSE <<>>
             a == SignatureInstances(0)
             b == SignatureInstances(1)
             m == <<MacBatch>>
             ab == a \o b
             abt == ab \o third
  <2>1. n \in {2, 3}
    BY <1>2 DEF IsCall
  <2>2. /\ IsSequence(p) /\ Len(p) = 6 * n + 1 /\ p[6 * n + 1] = MacBatch
        /\ \A j \in 1 .. 6 * n : p[j] = Instance((j - 1) \div 6, Families[((j - 1) % 6) + 1])
    BY <1>2, ProverWalk
  <2>3. v = abt \o m
    BY <1>2 DEF VerifierInstances
  <2>4. /\ IsSequence(third) /\ Len(third) = 6 * (n - 2)
        /\ n = 3 => \A f \in 1 .. 6 : third[f] = Instance(2, Families[f])
    <3>1. CASE n = 3
      BY <3>1, OneSigner
    <3>2. CASE n = 2
      <4>1. third = <<>>
        BY <3>2
      <4>2. IsSequence(third) /\ Len(third) = 0
        BY <4>1, Single
      <4>3. 0 = 6 * (n - 2) /\ n # 3
        BY <3>2
      <4> QED BY <4>2, <4>3
    <3> QED BY <2>1, <3>1, <3>2
  <2>5. /\ IsSequence(a) /\ Len(a) = 6 /\ \A f \in 1 .. 6 : a[f] = Instance(0, Families[f])
        /\ IsSequence(b) /\ Len(b) = 6 /\ \A f \in 1 .. 6 : b[f] = Instance(1, Families[f])
    BY OneSigner
  <2>6. IsSequence(m) /\ Len(m) = 1 /\ m[1] = MacBatch
    BY Single
  <2> HIDE DEF a, b, m, third, v, p, n
  <2>7. /\ IsSequence(ab) /\ Len(ab) = 12
        /\ \A j \in 1 .. 6 : ab[j] = Instance(0, Families[j])
        /\ \A j \in 7 .. 12 : ab[j] = Instance(1, Families[j - 6])
    <3>1. /\ IsSequence(ab) /\ Len(ab) = Len(a) + Len(b)
          /\ \A j \in 1 .. Len(a) : ab[j] = a[j]
          /\ \A j \in Len(a) + 1 .. Len(a) + Len(b) : ab[j] = b[j - Len(a)]
      <4>1. IsSequence(a) /\ IsSequence(b)
        BY <2>5
      <4> QED BY <4>1, Joined
    <3> HIDE DEF ab
    <3>2. \A j \in 7 .. 12 : ab[j] = b[j - 6] /\ j - 6 \in 1 .. 6
      BY <2>5, <3>1
    <3> QED BY <2>5, <3>1, <3>2
  <2> HIDE DEF ab
  <2>8. /\ IsSequence(abt) /\ Len(abt) = 6 * n
        /\ \A j \in 1 .. 12 : abt[j] = ab[j]
        /\ \A j \in 13 .. 6 * n : abt[j] = third[j - 12]
    <3>1. /\ IsSequence(abt) /\ Len(abt) = Len(ab) + Len(third)
          /\ \A j \in 1 .. Len(ab) : abt[j] = ab[j]
          /\ \A j \in Len(ab) + 1 .. Len(ab) + Len(third) : abt[j] = third[j - Len(ab)]
      <4>1. IsSequence(ab) /\ IsSequence(third)
        BY <2>4, <2>7
      <4> QED BY <4>1, Joined
    <3> HIDE DEF abt
    <3> QED BY <2>1, <2>4, <2>7, <3>1
  <2> HIDE DEF abt
  <2>9. \A j \in 1 .. 6 * n : abt[j] = p[j]
    <3> TAKE j \in 1 .. 6 * n
    <3>1. CASE j \in 1 .. 6
      <4>1. (j - 1) \div 6 = 0 /\ ((j - 1) % 6) + 1 = j
        BY <3>1
      <4>2. p[j] = Instance((j - 1) \div 6, Families[((j - 1) % 6) + 1])
        BY <2>2
      <4>3. p[j] = Instance(0, Families[j])
        BY <4>1, <4>2
      <4>4. j \in 1 .. 12
        BY <3>1
      <4>5. abt[j] = Instance(0, Families[j])
        BY <2>7, <2>8, <3>1, <4>4
      <4> QED BY <4>3, <4>5
    <3>2. CASE j \in 7 .. 12
      <4>1. (j - 1) \div 6 = 1 /\ ((j - 1) % 6) + 1 = j - 6
        BY <3>2
      <4>2. p[j] = Instance((j - 1) \div 6, Families[((j - 1) % 6) + 1])
        BY <2>2
      <4>3. p[j] = Instance(1, Families[j - 6])
        BY <4>1, <4>2
      <4>4. j \in 1 .. 12
        BY <3>2
      <4>5. abt[j] = Instance(1, Families[j - 6])
        BY <2>7, <2>8, <3>2, <4>4
      <4> QED BY <4>3, <4>5
    <3>3. CASE n = 3 /\ j \in 13 .. 18
      <4>1. (j - 1) \div 6 = 2 /\ ((j - 1) % 6) + 1 = j - 12 /\ j - 12 \in 1 .. 6
        BY <3>3
      <4>2. abt[j] = third[j - 12]
        BY <2>8, <3>3
      <4>3. third[j - 12] = Instance(2, Families[j - 12])
        BY <2>4, <3>3, <4>1
      <4> QED BY <2>2, <3>3, <4>1, <4>2, <4>3
    <3> QED BY <2>1, <3>1, <3>2, <3>3
  <2>10. /\ IsSequence(v) /\ Len(v) = 6 * n + 1 /\ v[6 * n + 1] = MacBatch
         /\ \A j \in 1 .. 6 * n : v[j] = abt[j]
    <3>1. /\ IsSequence(v) /\ Len(v) = Len(abt) + Len(m)
          /\ \A j \in 1 .. Len(abt) : v[j] = abt[j]
          /\ \A j \in 1 .. Len(m) : v[Len(abt) + j] = m[j]
      <4>1. IsSequence(abt) /\ IsSequence(m)
        BY <2>6, <2>8
      <4> QED BY <2>3, <4>1, Joined
    <3> QED BY <2>1, <2>6, <2>8, <3>1
  <2>11. \A j \in 1 .. Len(v) : v[j] = p[j]
    BY <2>1, <2>2, <2>9, <2>10
  <2>12. v = p
    BY <2>2, <2>10, <2>11, SameSequence
  <2> QED BY <2>12 DEF v, p
<1> QED BY <1>1, <1>2 DEF IsCall

(* What each instance of a walk is. *)
LEMMA WalkedInstance ==
    ASSUME NEW call, IsCall(call), NEW j \in 1 .. Len(ProverInstances(call)),
           NEW inst, inst = ProverInstances(call)[j]
    PROVE  \/ /\ j \in 1 .. 6 * Len(call.projections)
              /\ inst.label \in Labels \ {"mac"} /\ inst.signer \in 0 .. Len(call.projections) - 1
              /\ inst = Instance(inst.signer, inst.label)
           \/ call.mode = "mdoc" /\ j = 6 * Len(call.projections) + 1 /\ inst = MacBatch
<1> DEFINE n == Len(call.projections)
           insts == ProverInstances(call)
<1>1. /\ n \in Nat /\ n >= 1
      /\ Len(insts) = 6 * n + (IF call.mode = "mdoc" THEN 1 ELSE 0)
      /\ \A i \in 1 .. 6 * n :
            insts[i] = Instance((i - 1) \div 6, Families[((i - 1) % 6) + 1])
      /\ call.mode = "mdoc" => insts[6 * n + 1] = MacBatch
  BY ProverWalk
<1> HIDE DEF n
<1>0. inst = insts[j] /\ j \in 1 .. Len(insts)
  OBVIOUS
<1> HIDE DEF insts
<1>2. CASE j \in 1 .. 6 * n
  <2>1. insts[j] = Instance((j - 1) \div 6, Families[((j - 1) % 6) + 1])
    BY <1>1, <1>2
  <2>2. (j - 1) \div 6 \in 0 .. n - 1 /\ ((j - 1) % 6) + 1 \in 1 .. 6
    BY <1>1, <1>2
  <2>3. Families[((j - 1) % 6) + 1] \in Labels \ {"mac"}
    BY <2>2, FamilyLabels
  <2> QED BY <1>0, <1>2, <2>1, <2>2, <2>3 DEF Instance, n
<1>3. CASE j \notin 1 .. 6 * n
  <2>1. call.mode = "mdoc" /\ j = 6 * n + 1
    BY <1>0, <1>1, <1>3
  <2> QED BY <1>0, <1>1, <2>1 DEF n
<1> QED BY <1>2, <1>3

LEMMA FamilyPlace ==
    ASSUME NEW call, IsCall(call), NEW s \in 0 .. Len(call.projections) - 1, NEW f \in 1 .. 6
    PROVE  /\ 6 * s + f \in 1 .. Len(ProverInstances(call))
           /\ ProverInstances(call)[6 * s + f] = Instance(s, Families[f])
<1> DEFINE n == Len(call.projections)
           insts == ProverInstances(call)
<1>1. /\ n \in Nat /\ n >= 1
      /\ Len(insts) = 6 * n + (IF call.mode = "mdoc" THEN 1 ELSE 0)
      /\ \A i \in 1 .. 6 * n :
            insts[i] = Instance((i - 1) \div 6, Families[((i - 1) % 6) + 1])
  BY ProverWalk
<1>0. s \in 0 .. n - 1
  OBVIOUS
<1> HIDE DEF n, insts
<1>2. 6 * s + f \in 1 .. 6 * n /\ 6 * s + f \in 1 .. Len(insts)
  BY <1>0, <1>1
<1>3. ((6 * s + f) - 1) \div 6 = s /\ (((6 * s + f) - 1) % 6) + 1 = f
  <2>1. s \in Int
    BY <1>0, <1>1
  <2>2. f - 1 \in 0 .. 5 /\ (6 * s + f) - 1 = 6 * s + (f - 1)
    BY <2>1
  <2>3. (6 * s + (f - 1)) \div 6 = s /\ (6 * s + (f - 1)) % 6 = f - 1
    BY <2>1, <2>2
  <2> QED BY <2>1, <2>2, <2>3
<1> QED BY <1>1, <1>2, <1>3 DEF insts

(* An instance is met once. *)
LEMMA MetOnce ==
    ASSUME NEW call, IsCall(call),
           NEW j \in 1 .. Len(ProverInstances(call)), NEW k \in 1 .. Len(ProverInstances(call)),
           ProverInstances(call)[j] = ProverInstances(call)[k]
    PROVE  j = k
<1> DEFINE n == Len(call.projections)
           insts == ProverInstances(call)
<1>1. /\ n \in Nat /\ n >= 1
      /\ \A i \in 1 .. 6 * n :
            insts[i] = Instance((i - 1) \div 6, Families[((i - 1) % 6) + 1])
  BY ProverWalk
<1>2. /\ \/ j \in 1 .. 6 * n /\ insts[j].label # "mac"
         \/ j = 6 * n + 1 /\ insts[j].label = "mac"
      /\ \/ k \in 1 .. 6 * n /\ insts[k].label # "mac"
         \/ k = 6 * n + 1 /\ insts[k].label = "mac"
  BY WalkedInstance DEF MacBatch, Instance
<1>4. insts[j] = insts[k]
  OBVIOUS
<1> HIDE DEF n, insts
<1>3. CASE j \in 1 .. 6 * n /\ k \in 1 .. 6 * n
  <2> DEFINE a == (j - 1) \div 6
             b == ((j - 1) % 6) + 1
             c == (k - 1) \div 6
             d == ((k - 1) % 6) + 1
  <2>0. j \in Int /\ k \in Int
    BY <1>1, <1>3
  <2>1. insts[j] = Instance(a, Families[b]) /\ insts[k] = Instance(c, Families[d])
    BY <1>1, <1>3
  <2>2. b \in 1 .. 6 /\ a \in Int /\ j = 6 * a + b
    BY <2>0
  <2>4. d \in 1 .. 6 /\ c \in Int /\ k = 6 * c + d
    BY <2>0
  <2> HIDE DEF a, b, c, d
  <2>5. a = c /\ Families[b] = Families[d]
    <3>1. insts[j].signer = a /\ insts[j].label = Families[b]
      BY <2>1 DEF Instance
    <3>2. insts[k].signer = c /\ insts[k].label = Families[d]
      BY <2>1 DEF Instance
    <3> QED BY <1>4, <3>1, <3>2
  <2>3. b = d
    BY <2>2, <2>4, <2>5, FamilyLabels
  <2> QED BY <2>2, <2>3, <2>4, <2>5
<1> QED BY <1>2, <1>3, <1>4

-----------------------------------------------------------------------------
(* What is sent and taken of an instance.                                  *)

LEMMA Tuple1 ==
    ASSUME NEW a
    PROVE  IsSequence(<<a>>) /\ Len(<<a>>) = 1 /\ DOMAIN <<a>> = 1 .. 1 /\ <<a>>[1] = a
BY DEF IsSequence

LEMMA Tuple2 ==
    ASSUME NEW a, NEW b
    PROVE  /\ IsSequence(<<a, b>>) /\ Len(<<a, b>>) = 2 /\ DOMAIN <<a, b>> = 1 .. 2
           /\ <<a, b>>[1] = a /\ <<a, b>>[2] = b
BY DEF IsSequence

LEMMA Tuple4 ==
    ASSUME NEW a, NEW b, NEW c, NEW d, NEW t, t = <<a, b, c, d>>
    PROVE  /\ IsSequence(t) /\ Len(t) = 4 /\ DOMAIN t = 1 .. 4
           /\ t[1] = a /\ t[2] = b /\ t[3] = c /\ t[4] = d
BY DEF IsSequence

LEMMA Tuple6 ==
    ASSUME NEW a, NEW b, NEW c, NEW d, NEW e, NEW f, NEW t, t = <<a, b, c, d, e, f>>
    PROVE  /\ IsSequence(t) /\ Len(t) = 6 /\ DOMAIN t = 1 .. 6
           /\ t[1] = a /\ t[2] = b /\ t[3] = c /\ t[4] = d /\ t[5] = e /\ t[6] = f
BY DEF IsSequence

PointNames == <<"ax", "ay", "bx", "by", "rx", "ry">>

LEMMA PointNamesOf ==
    /\ IsSequence(PointNames) /\ Len(PointNames) = 6 /\ DOMAIN PointNames = 1 .. 6
    /\ PointNames[1] = "ax" /\ PointNames[2] = "ay" /\ PointNames[3] = "bx"
    /\ PointNames[4] = "by" /\ PointNames[5] = "rx" /\ PointNames[6] = "ry"
BY Tuple6 DEF PointNames

(* The names a role adds, for the prover's mode. *)
RoleNames(mode, inst) ==
    IF mode = "mdoc" /\ inst.signer = 0 /\ inst.label = "c3" THEN <<"z">>
    ELSE IF mode = "mdoc" /\ inst.signer = 1 /\ inst.label = "c2" THEN <<"qx", "qy">>
    ELSE <<>>

(* The private cells that both walks name, in their order. *)
PrivateNames(mode, inst) ==
    IF inst.label \in {"c11", "c12"} THEN PointNames
    ELSE IF inst.label = "c14" THEN <<"rx">>
    ELSE RoleNames(mode, inst)

LEMMA PrivateNamesOf ==
    ASSUME NEW mode, NEW inst, inst.label \in Labels, inst.label # "mac"
    PROVE  /\ IsSequence(PrivateNames(mode, inst)) /\ Len(PrivateNames(mode, inst)) \in 0 .. 6
           /\ DOMAIN PrivateNames(mode, inst) = 1 .. Len(PrivateNames(mode, inst))
           /\ \A i \in 1 .. Len(PrivateNames(mode, inst)) :
                 \E k \in DOMAIN Cells(inst.label) :
                    Cells(inst.label)[k] = PrivateNames(mode, inst)[i]
<1> DEFINE p == PrivateNames(mode, inst)
<1>1. CASE inst.label \in {"c11", "c12"}
  <2>1. p = PointNames /\ PointNames = <<"ax", "ay", "bx", "by", "rx", "ry">>
    BY <1>1 DEF PrivateNames, PointNames
  <2>2. Cells(inst.label) = <<"ax", "ay", "bx", "by", "rx", "ry">>
    BY <1>1 DEF Cells
  <2> HIDE DEF p
  <2>3. IsSequence(p) /\ Len(p) = 6 /\ DOMAIN p = 1 .. 6 /\ DOMAIN Cells(inst.label) = 1 .. 6
    <3>1. DOMAIN <<"ax", "ay", "bx", "by", "rx", "ry">> = 1 .. 6
      OBVIOUS
    <3> QED BY <2>1, <2>2, <3>1, PointNamesOf
  <2> QED BY <2>1, <2>2, <2>3 DEF p
<1>2. CASE inst.label = "c14"
  <2>1. p = <<"rx">>
    BY <1>2 DEF PrivateNames
  <2>2. Cells(inst.label) = <<"rx", "r">>
    BY <1>2 DEF Cells
  <2> HIDE DEF p
  <2>3. IsSequence(p) /\ Len(p) = 1 /\ p[1] = "rx" /\ DOMAIN p = 1 .. 1
    BY <2>1, Tuple1
  <2> QED BY <2>2, <2>3 DEF p
<1>3. CASE inst.label \notin {"c11", "c12", "c14"} /\ RoleNames(mode, inst) = <<"z">>
  <2>1. p = <<"z">>
    BY <1>3 DEF PrivateNames
  <2>2. inst.label = "c3"
    BY <1>3 DEF RoleNames
  <2>3. Cells(inst.label) = <<"z", "r", "s">>
    BY <2>2 DEF Cells
  <2> HIDE DEF p
  <2>4. IsSequence(p) /\ Len(p) = 1 /\ p[1] = "z" /\ DOMAIN p = 1 .. 1
    BY <2>1, Tuple1
  <2> QED BY <2>3, <2>4 DEF p
<1>4. CASE inst.label \notin {"c11", "c12", "c14"} /\ RoleNames(mode, inst) = <<"qx", "qy">>
  <2>1. p = <<"qx", "qy">>
    BY <1>4 DEF PrivateNames
  <2>2. inst.label = "c2"
    BY <1>4 DEF RoleNames
  <2>3. Cells(inst.label) = <<"r", "s", "qx", "qy">>
    BY <2>2 DEF Cells
  <2> HIDE DEF p
  <2>4. IsSequence(p) /\ Len(p) = 2 /\ p[1] = "qx" /\ p[2] = "qy" /\ DOMAIN p = 1 .. 2
    BY <2>1, Tuple2
  <2> QED BY <2>3, <2>4 DEF p
<1>5. CASE inst.label \notin {"c11", "c12", "c14"} /\ RoleNames(mode, inst) = <<>>
  <2>1. p = <<>>
    BY <1>5 DEF PrivateNames
  <2> HIDE DEF p
  <2>2. IsSequence(p) /\ Len(p) = 0 /\ DOMAIN p = {}
    <3>1. IsSequence(p) /\ Len(p) = 0
      BY <2>1, Single
    <3>2. DOMAIN p = {}
      BY <2>1
    <3> QED BY <3>1, <3>2
  <2>3. DOMAIN p = 1 .. Len(p) /\ 1 .. Len(p) = {}
    BY <2>2
  <2> QED BY <2>2, <2>3 DEF p
<1>6. RoleNames(mode, inst) \in {<<"z">>, <<"qx", "qy">>, <<>>}
  BY DEF RoleNames
<1> QED BY <1>1, <1>2, <1>3, <1>4, <1>5, <1>6

LEMMA SentIsPrivate ==
    ASSUME NEW inst, inst.label \in Labels, inst.label # "mac"
    PROVE  SentNames(inst) = PrivateNames(case.prover.mode, inst)
<1> DEFINE role == RoleNames(case.prover.mode, inst)
<1>1. SentNames(inst) = SentOfFamily(inst.label) \o role
  BY DEF SentNames, RoleNames
<1>2. role = <<"z">> \/ role = <<"qx", "qy">> \/ role = <<>>
  BY DEF RoleNames
<1>3. IsSequence(role)
  <2>1. IsSequence(<<"z">>) /\ IsSequence(<<"qx", "qy">>) /\ IsSequence(<<>>)
    BY Tuple1, Tuple2, Single
  <2> QED BY <1>2, <2>1
<1>4. inst.label \in {"c11", "c12", "c14"} => role = <<>>
  BY DEF RoleNames
<1> HIDE DEF role
<1>5. CASE inst.label \in {"c11", "c12"}
  <2>1. SentOfFamily(inst.label) = PointNames
    BY <1>5 DEF SentOfFamily, PointNames
  <2>2. IsSequence(PointNames)
    BY PointNamesOf
  <2> QED BY <1>1, <1>4, <1>5, <2>1, <2>2, Prepended DEF PrivateNames
<1>6. CASE inst.label = "c14"
  <2>1. SentOfFamily(inst.label) = <<"rx">>
    BY <1>6 DEF SentOfFamily
  <2>2. IsSequence(<<"rx">>)
    BY Tuple1
  <2> QED BY <1>1, <1>4, <1>6, <2>1, <2>2, Prepended DEF PrivateNames
<1>7. CASE inst.label \notin {"c11", "c12", "c14"}
  <2>1. SentOfFamily(inst.label) = <<>>
    BY <1>7 DEF SentOfFamily
  <2> QED BY <1>1, <1>3, <1>7, <2>1, Prepended DEF PrivateNames, role
<1> QED BY <1>5, <1>6, <1>7

LEMMA PointsJoined ==
    /\ <<"ax", "ay", "bx", "by">> \o <<"rx", "ry">> = PointNames
    /\ <<"ax", "ay">> \o <<"bx", "by">> \o <<"rx", "ry">> = PointNames
<1> DEFINE four == <<"ax", "ay", "bx", "by">>
           a == <<"ax", "ay">>
           b == <<"bx", "by">>
           c == <<"rx", "ry">>
<1>1. /\ IsSequence(four) /\ Len(four) = 4
      /\ four[1] = "ax" /\ four[2] = "ay" /\ four[3] = "bx" /\ four[4] = "by"
  BY Tuple4
<1>2. /\ IsSequence(a) /\ Len(a) = 2 /\ a[1] = "ax" /\ a[2] = "ay"
      /\ IsSequence(b) /\ Len(b) = 2 /\ b[1] = "bx" /\ b[2] = "by"
      /\ IsSequence(c) /\ Len(c) = 2 /\ c[1] = "rx" /\ c[2] = "ry"
  BY Tuple2
<1> HIDE DEF four, a, b, c
<1>3. a \o b = four
  <2>1. /\ IsSequence(a \o b) /\ Len(a \o b) = 4
        /\ \A i \in 1 .. 2 : (a \o b)[i] = a[i]
        /\ \A i \in 1 .. 2 : (a \o b)[2 + i] = b[i]
    <3>1. IsSequence(a) /\ IsSequence(b)
      BY <1>2
    <3>2. /\ IsSequence(a \o b) /\ Len(a \o b) = Len(a) + Len(b)
          /\ \A i \in 1 .. Len(a) : (a \o b)[i] = a[i]
          /\ \A i \in 1 .. Len(b) : (a \o b)[Len(a) + i] = b[i]
      BY <3>1, Joined
    <3> QED BY <1>2, <3>2
  <2>2. (a \o b)[1] = a[1] /\ (a \o b)[2] = a[2] /\ (a \o b)[2 + 1] = b[1] /\ (a \o b)[2 + 2] = b[2]
    BY <2>1
  <2>3. \A i \in 1 .. 4 : (a \o b)[i] = four[i]
    <3>1. (a \o b)[1] = four[1] /\ (a \o b)[2] = four[2] /\ (a \o b)[3] = four[3] /\ (a \o b)[4] = four[4]
      BY <1>1, <1>2, <2>2
    <3>2. \A i \in 1 .. 4 : i = 1 \/ i = 2 \/ i = 3 \/ i = 4
      OBVIOUS
    <3> QED BY <3>1, <3>2, Zenon
  <2> QED BY <1>1, <2>1, <2>3, SameSequence
<1>4. four \o c = PointNames
  <2>1. /\ IsSequence(four \o c) /\ Len(four \o c) = 6
        /\ \A i \in 1 .. 4 : (four \o c)[i] = four[i]
        /\ \A i \in 1 .. 2 : (four \o c)[4 + i] = c[i]
    <3>1. IsSequence(four) /\ IsSequence(c)
      BY <1>1, <1>2
    <3>2. /\ IsSequence(four \o c) /\ Len(four \o c) = Len(four) + Len(c)
          /\ \A i \in 1 .. Len(four) : (four \o c)[i] = four[i]
          /\ \A i \in 1 .. Len(c) : (four \o c)[Len(four) + i] = c[i]
      BY <3>1, Joined
    <3> QED BY <1>1, <1>2, <3>2
  <2>2. (four \o c)[4 + 1] = c[1] /\ (four \o c)[4 + 2] = c[2]
    BY <2>1
  <2>3. \A i \in 1 .. 6 : (four \o c)[i] = PointNames[i]
    <3>1. /\ (four \o c)[1] = PointNames[1] /\ (four \o c)[2] = PointNames[2]
          /\ (four \o c)[3] = PointNames[3] /\ (four \o c)[4] = PointNames[4]
          /\ (four \o c)[5] = PointNames[5] /\ (four \o c)[6] = PointNames[6]
      BY <1>1, <1>2, <2>1, <2>2, PointNamesOf
    <3>2. \A i \in 1 .. 6 : i = 1 \/ i = 2 \/ i = 3 \/ i = 4 \/ i = 5 \/ i = 6
      OBVIOUS
    <3> QED BY <3>1, <3>2, Zenon
  <2> QED BY <2>1, <2>3, SameSequence, PointNamesOf
<1> QED BY <1>3, <1>4 DEF four, a, b, c

LEMMA TakenIsPrivate ==
    ASSUME NEW inst, inst.label \in Labels, inst.label # "mac"
    PROVE  /\ TakenNames(inst) = PrivateNames(Expected.mode, inst)
           /\ TakenOfRole(inst) = RoleNames(Expected.mode, inst)
<1> DEFINE role == RoleNames(Expected.mode, inst)
           family == TakenOfFamily(inst.label)
<1>1. TakenOfRole(inst) = role /\ TakenNames(inst) = family \o role
  BY DEF TakenNames, TakenOfRole, RoleNames
<1>2. role = <<"z">> \/ role = <<"qx", "qy">> \/ role = <<>>
  BY DEF RoleNames
<1>3. IsSequence(role)
  <2>1. IsSequence(<<"z">>) /\ IsSequence(<<"qx", "qy">>) /\ IsSequence(<<>>)
    BY Tuple1, Tuple2, Single
  <2> QED BY <1>2, <2>1
<1>4. inst.label \in {"c11", "c12", "c14"} => role = <<>>
  BY DEF RoleNames
<1>5. CASE inst.label = "c11"
  <2>1. family = <<"ax", "ay", "bx", "by">> \o <<"rx", "ry">>
    BY <1>5 DEF TakenOfFamily
  <2>2. family = PointNames
    BY <2>1, PointsJoined
  <2>3. IsSequence(PointNames)
    BY PointNamesOf
  <2> HIDE DEF role, family
  <2> QED BY <1>1, <1>4, <1>5, <2>2, <2>3, Prepended DEF PrivateNames, role
<1>6. CASE inst.label = "c12"
  <2>1. family = <<"ax", "ay">> \o <<"bx", "by">> \o <<"rx", "ry">>
    BY <1>6 DEF TakenOfFamily
  <2>2. family = PointNames
    BY <2>1, PointsJoined
  <2>3. IsSequence(PointNames)
    BY PointNamesOf
  <2> HIDE DEF role, family
  <2> QED BY <1>1, <1>4, <1>6, <2>2, <2>3, Prepended DEF PrivateNames, role
<1>7. CASE inst.label = "c14"
  <2>1. family = <<"rx">>
    BY <1>7 DEF TakenOfFamily
  <2>2. IsSequence(<<"rx">>)
    BY Tuple1
  <2> HIDE DEF role, family
  <2> QED BY <1>1, <1>4, <1>7, <2>1, <2>2, Prepended DEF PrivateNames, role
<1>8. CASE inst.label \notin {"c11", "c12", "c14"}
  <2>1. family = <<>>
    BY <1>8 DEF TakenOfFamily
  <2> HIDE DEF role, family
  <2> QED BY <1>1, <1>3, <1>8, <2>1, Prepended DEF PrivateNames, role
<1> QED BY <1>1, <1>5, <1>6, <1>7, <1>8

-----------------------------------------------------------------------------
(* Running totals.                                                         *)

NatLess == {ss \in Nat \X Nat : ss[1] < ss[2]}

LEMMA LeastElement ==
    ASSUME NEW S \in SUBSET Nat, S # {}
    PROVE  \E x \in S : \A y \in S : ~(y < x)
<1>1. IsWellFoundedOn(NatLess, Nat)
  BY NatLessThanWellFounded DEF OpToRel, NatLess
<1>2. PICK x \in S : \A y \in S : ~(<<y, x>> \in NatLess)
  BY <1>1, WFMin
<1> QED BY <1>2 DEF NatLess

Totals(counts, n, m) ==
    /\ m \in [1 .. n + 1 -> Nat] /\ m[1] = 0
    /\ \A j \in 1 .. n : m[j + 1] = m[j] + counts[j]

LEMMA TotalsExist ==
    ASSUME NEW n \in Nat, NEW counts \in [1 .. n -> Nat]
    PROVE  \E m : Totals(counts, n, m)
<1> DEFINE S == {k \in 0 .. n : ~(\E m : Totals(counts, k, m))}
<1>1. CASE S # {}
  <2>1. S \in SUBSET Nat
    OBVIOUS
  <2>2. PICK x \in S : \A y \in S : ~(y < x)
    BY <1>1, <2>1, LeastElement
  <2>3. x # 0
    <3> DEFINE m == [j \in 1 .. 1 |-> 0]
    <3>1. m \in [1 .. 0 + 1 -> Nat] /\ m[1] = 0 /\ \A j \in 1 .. 0 : m[j + 1] = m[j] + counts[j]
      OBVIOUS
    <3>2. Totals(counts, 0, m)
      BY <3>1 DEF Totals
    <3> QED BY <3>2
  <2>4. x \in 1 .. n /\ x - 1 \in 0 .. n /\ x - 1 < x
    BY <2>3
  <2>5. PICK m : Totals(counts, x - 1, m)
    BY <2>2, <2>4
  <2> DEFINE t == m[x] + counts[x]
             w == [j \in 1 .. x + 1 |-> IF j = x + 1 THEN t ELSE m[j]]
  <2>6. m \in [1 .. x -> Nat] /\ m[1] = 0 /\ \A j \in 1 .. x - 1 : m[j + 1] = m[j] + counts[j]
    <3>1. (x - 1) + 1 = x
      BY <2>4
    <3> QED BY <2>5, <3>1 DEF Totals
  <2>7. t \in Nat
    BY <2>4, <2>6
  <2> HIDE DEF t
  <2>8. w \in [1 .. x + 1 -> Nat] /\ w[1] = 0
    BY <2>4, <2>6, <2>7
  <2>9. ASSUME NEW j \in 1 .. x
        PROVE  w[j + 1] = w[j] + counts[j]
    <3>1. CASE j = x
      BY <2>4, <3>1 DEF t
    <3>2. CASE j # x
      <4>1. j \in 1 .. x - 1 /\ j + 1 # x + 1 /\ j # x + 1 /\ j + 1 \in 1 .. x + 1 /\ j \in 1 .. x + 1
        BY <2>4, <3>2
      <4> QED BY <2>6, <4>1
    <3> QED BY <3>1, <3>2
  <2> HIDE DEF w
  <2>10. Totals(counts, x, w)
    BY <2>8, <2>9 DEF Totals
  <2> QED BY <2>10
<1>2. CASE S = {}
  <2>1. n \in 0 .. n
    OBVIOUS
  <2>2. n \notin S
    BY <1>2
  <2> QED BY <2>1, <2>2
<1> QED BY <1>1, <1>2

LEMMA TotalsGrow ==
    ASSUME NEW n \in Nat, NEW counts \in [1 .. n -> Nat], NEW m, Totals(counts, n, m),
           NEW i \in 1 .. n + 1, NEW j \in i .. n + 1
    PROVE  m[i] <= m[j]
<1> DEFINE S == {k \in i .. n + 1 : ~(m[i] <= m[k])}
<1>1. /\ m \in [1 .. n + 1 -> Nat]
      /\ \A k \in 1 .. n : m[k + 1] = m[k] + counts[k]
  BY DEF Totals
<1>2. CASE S # {}
  <2>1. S \in SUBSET Nat
    OBVIOUS
  <2>2. PICK x \in S : \A y \in S : ~(y < x)
    BY <1>2, <2>1, LeastElement
  <2>3. x \in i .. n + 1 /\ ~(m[i] <= m[x])
    OBVIOUS
  <2>4. m[i] \in Nat
    BY <1>1
  <2>5. x # i
    BY <2>3, <2>4
  <2>6. x - 1 \in i .. n + 1 /\ x - 1 \in 1 .. n /\ x - 1 < x /\ (x - 1) + 1 = x
    BY <2>3, <2>5
  <2>7. m[i] <= m[x - 1]
    BY <2>2, <2>6
  <2> HIDE DEF S
  <2>8. m[x] = m[x - 1] + counts[x - 1] /\ m[x - 1] \in Nat /\ counts[x - 1] \in Nat
    <3>1. m[(x - 1) + 1] = m[x - 1] + counts[x - 1]
      BY <1>1, <2>6
    <3> QED BY <1>1, <2>6, <3>1
  <2>9. m[i] <= m[x]
    BY <2>4, <2>7, <2>8
  <2> QED BY <2>3, <2>9
<1> QED BY <1>2

-----------------------------------------------------------------------------
(* What the case decides.                                                  *)

N == Len(Insts)
IsMdoc == case.prover.mode = "mdoc"
Inputs == [j \in 1 .. N |-> InputOf(Insts[j])]
SentCounts ==
    [j \in 1 .. N |-> IF Insts[j].label = "mac" THEN 4 + MacHalfCount
                      ELSE Len(PrivateNames(case.prover.mode, Insts[j]))]
Mark == CHOOSE m : Totals(SentCounts, N, m)    \* values sent before an instance

SpanLens == [j \in 1 .. N |-> InputLen(Insts[j].label) + PadLen[Insts[j].label]]
Place == CHOOSE m : Totals(SpanLens, N, m)     \* values committed before an instance
LayoutAt ==
    [j \in 1 .. N |-> Layout(Place[j], InputLen(Insts[j].label), PadLen[Insts[j].label])]

RootA == <<"A", Insts, case.deviation>>
Av == DrawAv(case.prover.seed, RootA)
RootB == IF IsMdoc THEN <<"B", Av>> ELSE <<>>
Root == IF IsMdoc THEN FullRoot(RootA, RootB) ELSE RootA
TagsMade == IF IsMdoc THEN [h \in 1 .. MacHalfCount |-> Tag(h, Av, HalfValue(h))] ELSE <<>>
Channels == [j \in 1 .. N |-> InstanceChannel(Insts[j], case.prover, Root, Av, TagsMade)]

LEMMA CaseKept ==
    ASSUME case' = case
    PROVE  /\ Insts' = Insts /\ N' = N /\ IsMdoc' = IsMdoc /\ Inputs' = Inputs
           /\ SentCounts' = SentCounts /\ Mark' = Mark
           /\ SpanLens' = SpanLens /\ Place' = Place /\ LayoutAt' = LayoutAt
           /\ RootA' = RootA /\ Av' = Av /\ RootB' = RootB /\ Root' = Root
           /\ TagsMade' = TagsMade /\ Channels' = Channels
           /\ Expected' = Expected /\ VerifierInsts' = VerifierInsts
<1>1. Insts' = Insts /\ N' = N /\ IsMdoc' = IsMdoc
  BY DEF Insts, N, IsMdoc
<1>2. Inputs' = Inputs
  BY <1>1 DEF Inputs, InputOf, MacInput, HalfValue, CellValue
<1>3. SentCounts' = SentCounts
  BY <1>1 DEF SentCounts
<1>4. Mark' = Mark
  BY <1>1, <1>3 DEF Mark
<1>0. SpanLens' = SpanLens
  BY <1>1 DEF SpanLens
<1>10. Place' = Place
  BY <1>0, <1>1 DEF Place
<1>11. LayoutAt' = LayoutAt
  BY <1>1, <1>10 DEF LayoutAt
<1>5. RootA' = RootA /\ Av' = Av
  BY <1>1 DEF RootA, Av
<1>6. RootB' = RootB /\ Root' = Root
  BY <1>1, <1>5 DEF RootB, Root
<1>7. TagsMade' = TagsMade
  BY <1>1, <1>5 DEF TagsMade, HalfValue
<1>8. Channels' = Channels
  BY <1>1, <1>5, <1>6, <1>7 DEF Channels
<1>9. Expected' = Expected /\ VerifierInsts' = VerifierInsts
  BY DEF Expected, VerifierInsts
<1> QED BY <1>0, <1>1, <1>2, <1>3, <1>4, <1>5, <1>6, <1>7, <1>8, <1>9, <1>10, <1>11

LEMMA CaseFacts ==
    ASSUME case \in Cases
    PROVE  /\ IsCall(case.prover) /\ IsCall(case.verifier) /\ case.fault \in Faults
           /\ case.fault \in MdocFaults => IsMdoc
           /\ case.fault = "entries swapped" => Len(case.prover.projections) >= 2
           /\ N = 6 * Len(case.prover.projections) + (IF IsMdoc THEN 1 ELSE 0)
           /\ N \in Nat /\ N >= 6 /\ IsSequence(Insts)
           /\ Insts = ProverInstances(case.prover)
<1>1. IsCall(case.prover) /\ IsCall(case.verifier) /\ case.fault \in Faults
  BY CasesAssumption
<1>2. /\ case.fault \in MdocFaults => IsMdoc
      /\ case.fault = "entries swapped" => Len(case.prover.projections) >= 2
  BY CasesAssumption DEF IsMdoc
<1>3. Insts = ProverInstances(case.prover)
  BY DEF Insts
<1> DEFINE n == Len(case.prover.projections)
<1>4. /\ n \in Nat /\ n >= 1 /\ IsSequence(Insts)
      /\ Len(Insts) = 6 * n + (IF case.prover.mode = "mdoc" THEN 1 ELSE 0)
  BY <1>1, <1>3, ProverWalk
<1> HIDE DEF n
<1>5. N = 6 * n + (IF IsMdoc THEN 1 ELSE 0)
  BY <1>4 DEF N, IsMdoc
<1>6. N \in Nat /\ N >= 6
  BY <1>4, <1>5
<1> QED BY <1>1, <1>2, <1>3, <1>4, <1>5, <1>6 DEF n

(* An instance's label and, unless it is the MAC's, its signer. *)
LEMMA InstanceFacts ==
    ASSUME case \in Cases, NEW j \in 1 .. N
    PROVE  /\ Insts[j].label \in Labels
           /\ Insts[j].label = "mac" => IsMdoc /\ Insts[j] = MacBatch
           /\ Insts[j].label # "mac" =>
                 /\ Insts[j].signer \in 0 .. Len(case.prover.projections) - 1
                 /\ Insts[j] = Instance(Insts[j].signer, Insts[j].label)
<1>1. IsCall(case.prover) /\ Insts = ProverInstances(case.prover)
  BY CaseFacts
<1>2. j \in 1 .. Len(ProverInstances(case.prover))
  BY <1>1 DEF N
<1> DEFINE i == Insts[j]
           n == Len(case.prover.projections)
<1>3. \/ /\ i.label \in Labels \ {"mac"} /\ i.signer \in 0 .. n - 1
         /\ i = Instance(i.signer, i.label)
      \/ case.prover.mode = "mdoc" /\ i = MacBatch
  BY <1>1, <1>2, WalkedInstance
<1> HIDE DEF i, n
<1>4. i = MacBatch => i.label = "mac"
  BY DEF MacBatch, Instance
<1>5. "mac" \in Labels
  BY DEF Labels
<1> QED BY <1>3, <1>4, <1>5 DEF i, n, IsMdoc

LEMMA MarkSteps ==
    ASSUME case \in Cases
    PROVE  /\ Mark \in [1 .. N + 1 -> Nat] /\ Mark[1] = 0
           /\ \A j \in 1 .. N : Mark[j + 1] = Mark[j] + SentCounts[j]
           /\ SentCounts \in [1 .. N -> Nat]
<1>1. N \in Nat
  BY CaseFacts
<1>2. SentCounts \in [1 .. N -> Nat]
  <2>1. ASSUME NEW j \in 1 .. N, Insts[j].label # "mac"
        PROVE  Len(PrivateNames(case.prover.mode, Insts[j])) \in Nat
    <3>1. Insts[j].label \in Labels
      BY InstanceFacts
    <3>2. Len(PrivateNames(case.prover.mode, Insts[j])) \in 0 .. 6
      BY <2>1, <3>1, PrivateNamesOf
    <3> QED BY <3>2
  <2>2. 4 + MacHalfCount \in Nat
    BY DEF MacHalfCount
  <2> QED BY <2>1, <2>2 DEF SentCounts
<1>3. Totals(SentCounts, N, Mark)
  BY <1>1, <1>2, TotalsExist DEF Mark
<1> QED BY <1>2, <1>3 DEF Totals

(* An input has its circuit's shape, and no cell holds another's value. *)
LEMMA InputFacts ==
    ASSUME case \in Cases, NEW j \in 1 .. N
    PROVE  /\ IsSequence(Inputs[j]) /\ Len(Inputs[j]) = InputLen(Insts[j].label)
           /\ Len(Inputs[j]) >= 1
           /\ Insts[j].label # "mac" => \A i \in DOMAIN Cells(Insts[j].label) :
                 /\ i \in 1 .. Len(Inputs[j])
                 /\ Inputs[j][i] = CellValue(Insts[j].signer, Insts[j].label,
                                             Cells(Insts[j].label)[i])
           /\ Insts[j].label = "mac" => \A h \in 1 .. MacHalfCount :
                 3 * h - 1 \in 1 .. Len(Inputs[j]) /\ Inputs[j][3 * h - 1] = HalfValue(h)
<1> DEFINE u == Inputs[j]
<1>1. u = InputOf(Insts[j])
  BY DEF Inputs
<1>2. Insts[j].label \in Labels
  BY InstanceFacts
<1>3. CASE Insts[j].label # "mac"
  <2> DEFINE cells == Cells(Insts[j].label)
  <2>1. DOMAIN cells = 1 .. Len(cells) /\ Len(cells) \in 2 .. 6
    BY <1>2, <1>3, CellsOfLabel
  <2>2. u = [i \in DOMAIN cells |-> CellValue(Insts[j].signer, Insts[j].label, cells[i])]
    BY <1>1, <1>3 DEF InputOf
  <2>3. InputLen(Insts[j].label) = Len(cells)
    BY <1>3 DEF InputLen
  <2> HIDE DEF u, cells
  <2>4. u = [i \in 1 .. Len(cells) |-> u[i]] /\ Len(cells) \in Nat
    BY <2>1, <2>2
  <2>5. IsSequence(u) /\ Len(u) = Len(cells)
    BY <2>4, Tabulated
  <2>6. Len(u) >= 1
    BY <2>1, <2>5
  <2>7. \A i \in DOMAIN cells :
            i \in 1 .. Len(u) /\ u[i] = CellValue(Insts[j].signer, Insts[j].label, cells[i])
    BY <2>1, <2>2, <2>5
  <2> QED BY <1>3, <2>3, <2>5, <2>6, <2>7 DEF u, cells
<1>4. CASE Insts[j].label = "mac"
  <2>1. u = MacInput
    BY <1>1, <1>4 DEF InputOf
  <2>2. MacInput = [i \in 1 .. 18 |->
            LET half == (i + 2) \div 3
            IN  CASE i % 3 = 1 -> <<"one">>
                  [] i % 3 = 2 -> HalfValue(half)
                  [] i % 3 = 0 -> <<"share", half>>]
    BY DEF MacInput, MacHalfCount
  <2>3. InputLen(Insts[j].label) = 18
    BY <1>4 DEF InputLen, MacHalfCount
  <2> HIDE DEF u
  <2>4. u = [i \in 1 .. 18 |-> u[i]]
    BY <2>1, <2>2
  <2>5. IsSequence(u) /\ Len(u) = 18
    BY <2>4, Tabulated
  <2>6. ASSUME NEW h \in 1 .. MacHalfCount
        PROVE  3 * h - 1 \in 1 .. Len(u) /\ u[3 * h - 1] = HalfValue(h)
    <3>1. h \in 1 .. 6
      BY DEF MacHalfCount
    <3>2. 3 * h - 1 \in 1 .. 18 /\ (3 * h - 1) % 3 = 2 /\ ((3 * h - 1) + 2) \div 3 = h
      BY <3>1
    <3>3. u[3 * h - 1] = HalfValue(((3 * h - 1) + 2) \div 3)
      BY <2>1, <2>2, <3>2
    <3> QED BY <2>5, <3>2, <3>3
  <2>7. Len(u) >= 1
    BY <2>5
  <2> QED BY <1>4, <2>3, <2>5, <2>6, <2>7 DEF u
<1> QED BY <1>3, <1>4

LEMMA PlaceSteps ==
    ASSUME case \in Cases
    PROVE  /\ Place \in [1 .. N + 1 -> Nat] /\ Place[1] = 0
           /\ \A j \in 1 .. N :
                 /\ InputLen(Insts[j].label) = Len(Inputs[j]) /\ Len(Inputs[j]) \in Nat \ {0}
                 /\ PadLen[Insts[j].label] \in Nat
                 /\ Place[j + 1] = Place[j] + Len(Inputs[j]) + PadLen[Insts[j].label]
                 /\ \A k \in j + 1 .. N + 1 : Place[j + 1] <= Place[k]
<1>1. N \in Nat
  BY CaseFacts
<1>2. ASSUME NEW j \in 1 .. N
      PROVE  /\ InputLen(Insts[j].label) = Len(Inputs[j]) /\ Len(Inputs[j]) \in Nat \ {0}
             /\ PadLen[Insts[j].label] \in Nat
  <2>1. IsSequence(Inputs[j]) /\ Len(Inputs[j]) = InputLen(Insts[j].label) /\ Len(Inputs[j]) >= 1
    BY InputFacts
  <2>2. Insts[j].label \in Labels
    BY InstanceFacts
  <2>3. PadLen[Insts[j].label] \in Nat
    BY <2>2, BundleAssumption DEF Labels
  <2>4. Len(Inputs[j]) \in Nat \ {0}
    BY <2>1 DEF IsSequence
  <2> QED BY <2>1, <2>3, <2>4
<1>3. SpanLens \in [1 .. N -> Nat]
  BY <1>2 DEF SpanLens
<1>4. Totals(SpanLens, N, Place)
  BY <1>1, <1>3, TotalsExist DEF Place
<1>5. /\ Place \in [1 .. N + 1 -> Nat] /\ Place[1] = 0
      /\ \A j \in 1 .. N : Place[j + 1] = Place[j] + SpanLens[j]
  BY <1>4 DEF Totals
<1>6. ASSUME NEW j \in 1 .. N
      PROVE  /\ Place[j + 1] = Place[j] + Len(Inputs[j]) + PadLen[Insts[j].label]
             /\ \A k \in j + 1 .. N + 1 : Place[j + 1] <= Place[k]
  <2>1. SpanLens[j] = Len(Inputs[j]) + PadLen[Insts[j].label]
    BY <1>2 DEF SpanLens
  <2>2. Place[j] \in Nat /\ Len(Inputs[j]) \in Nat /\ PadLen[Insts[j].label] \in Nat
    BY <1>1, <1>2, <1>5
  <2>3. Place[j + 1] = Place[j] + Len(Inputs[j]) + PadLen[Insts[j].label]
    BY <1>5, <2>1, <2>2
  <2>4. j + 1 \in 1 .. N + 1
    BY <1>1
  <2>5. \A k \in j + 1 .. N + 1 : Place[j + 1] <= Place[k]
    BY <1>1, <1>3, <1>4, <2>4, TotalsGrow
  <2> QED BY <2>3, <2>5
<1> QED BY <1>2, <1>5, <1>6

(* The first signature's final addition and its points are sent after at most
   the issuer's hash. *)
LEMMA FirstMarks ==
    ASSUME case \in Cases
    PROVE  /\ Mark[4] \in {0, 1} /\ Mark[5] = Mark[4] + 6 /\ Mark[6] = Mark[4] + 12
           /\ SentCounts[4] = 6 /\ SentCounts[5] = 6
           /\ Mark[N + 1] >= 12
<1>1. /\ N \in Nat /\ N >= 6 /\ IsCall(case.prover) /\ Insts = ProverInstances(case.prover)
      /\ Len(case.prover.projections) \in Nat /\ Len(case.prover.projections) >= 1
  BY CaseFacts, ProverWalk
<1>2. ASSUME NEW f \in 1 .. 6
      PROVE  Insts[f] = Instance(0, Families[f])
  <2>1. 0 \in 0 .. Len(case.prover.projections) - 1
    BY <1>1
  <2>2. ProverInstances(case.prover)[6 * 0 + f] = Instance(0, Families[f])
    BY <1>1, <2>1, FamilyPlace
  <2>3. 6 * 0 + f = f
    OBVIOUS
  <2> QED BY <1>1, <2>2, <2>3
<1>3. ASSUME NEW f \in 1 .. 6
      PROVE  /\ Insts[f].signer = 0 /\ Insts[f].label = Families[f]
             /\ SentCounts[f] = Len(PrivateNames(case.prover.mode, Insts[f]))
  <2>1. Insts[f].signer = 0 /\ Insts[f].label = Families[f] /\ Families[f] # "mac"
    BY <1>2, FamilyLabels DEF Instance
  <2>2. f \in 1 .. N
    BY <1>1
  <2> QED BY <2>1, <2>2 DEF SentCounts
<1>4. /\ Insts[1].label = "c1" /\ Insts[2].label = "c2" /\ Insts[3].label = "c3"
      /\ Insts[4].label = "c11" /\ Insts[5].label = "c12"
      /\ Insts[2].signer = 0
  BY <1>3, FamilyLabels
<1>5. SentCounts[1] = 0
  <2>1. PrivateNames(case.prover.mode, Insts[1]) = <<>>
    BY <1>4 DEF PrivateNames, RoleNames
  <2> QED BY <1>3, <2>1, Single
<1>6. SentCounts[2] = 0
  <2>1. PrivateNames(case.prover.mode, Insts[2]) = <<>>
    BY <1>4 DEF PrivateNames, RoleNames
  <2> QED BY <1>3, <2>1, Single
<1>7. SentCounts[3] \in {0, 1}
  <2>1. \/ PrivateNames(case.prover.mode, Insts[3]) = <<>>
        \/ PrivateNames(case.prover.mode, Insts[3]) = <<"z">>
    BY <1>4 DEF PrivateNames, RoleNames
  <2>2. Len(<<>>) = 0 /\ Len(<<"z">>) = 1
    BY Single
  <2>3. Len(PrivateNames(case.prover.mode, Insts[3])) \in {0, 1}
    BY <2>1, <2>2
  <2>4. SentCounts[3] = Len(PrivateNames(case.prover.mode, Insts[3]))
    BY <1>3
  <2> QED BY <2>3, <2>4
<1>8. SentCounts[4] = 6 /\ SentCounts[5] = 6
  <2>1. /\ PrivateNames(case.prover.mode, Insts[4]) = PointNames
        /\ PrivateNames(case.prover.mode, Insts[5]) = PointNames
    BY <1>4 DEF PrivateNames
  <2>2. Len(PointNames) = 6
    BY PointNamesOf
  <2>3. /\ SentCounts[4] = Len(PrivateNames(case.prover.mode, Insts[4]))
        /\ SentCounts[5] = Len(PrivateNames(case.prover.mode, Insts[5]))
    BY <1>3
  <2> QED BY <2>1, <2>2, <2>3
<1>9. /\ Mark \in [1 .. N + 1 -> Nat] /\ Mark[1] = 0
      /\ \A j \in 1 .. N : Mark[j + 1] = Mark[j] + SentCounts[j]
      /\ SentCounts \in [1 .. N -> Nat]
  BY MarkSteps
<1>10. Mark[4] \in {0, 1} /\ Mark[5] = Mark[4] + 6 /\ Mark[6] = Mark[4] + 12
  <2>1. /\ 1 \in 1 .. N /\ 2 \in 1 .. N /\ 3 \in 1 .. N /\ 4 \in 1 .. N /\ 5 \in 1 .. N
    BY <1>1
  <2>2. Mark[1 + 1] = Mark[1] + SentCounts[1]
    BY <1>9, <2>1
  <2>3. Mark[2 + 1] = Mark[2] + SentCounts[2]
    BY <1>9, <2>1
  <2>4. Mark[3 + 1] = Mark[3] + SentCounts[3]
    BY <1>9, <2>1
  <2>5. Mark[4 + 1] = Mark[4] + SentCounts[4]
    BY <1>9, <2>1
  <2>6. Mark[5 + 1] = Mark[5] + SentCounts[5]
    BY <1>9, <2>1
  <2>7. Mark[4] \in {0, 1}
    BY <1>5, <1>6, <1>7, <1>9, <2>2, <2>3, <2>4
  <2> QED BY <1>8, <2>5, <2>6, <2>7
<1>11. Mark[6] <= Mark[N + 1]
  <2>1. Totals(SentCounts, N, Mark)
    BY <1>9 DEF Totals
  <2>2. 6 \in 1 .. N + 1 /\ N + 1 \in 6 .. N + 1
    BY <1>1
  <2> QED BY <1>1, <1>9, <2>1, <2>2, TotalsGrow
<1>12. Mark[N + 1] \in Nat
  BY <1>1, <1>9
<1> QED BY <1>8, <1>10, <1>11, <1>12

-----------------------------------------------------------------------------
(* The invariant: what holds in each phase.                                *)

BundleFields == {"params", "rootA", "rootB", "tags", "groupA", "groupB", "proximity",
                 "openingsA", "openingsB", "entries", "values", "batch"}
SeenFields == {"signers", "z", "qx", "qy", "mac"}

Shaped ==
    /\ case \in Cases /\ at \in Nat \ {0}
    /\ DOMAIN layouts = {"prover", "verifier"} /\ DOMAIN bundle = BundleFields
    /\ phase # "answered" => outcome = "none"

(* The inputs of the first instances lie where their layouts say. *)
LaidOut(count) ==
    /\ IsSequence(bundle.groupA) /\ Len(bundle.groupA) = Place[count + 1]
    /\ \A j \in 1 .. count : \A i \in 1 .. Len(Inputs[j]) :
            bundle.groupA[Place[j] + i] = Inputs[j][i]

Fresh == layouts.verifier = <<>> /\ cursor = 0
Rooted == bundle.rootA = RootA /\ bundle.rootB = RootB /\ bundle.tags = TagsMade
Opened ==
    /\ bundle.proximity = ProximityGamma(Root, bundle.proximity[3], case.prover.seed)
    /\ "indices" \in DOMAIN bundle.openingsA
    /\ IsMdoc => "indices" \in DOMAIN bundle.openingsB

Proved(count) ==
    /\ IsSequence(bundle.entries) /\ Len(bundle.entries) = count
    /\ \A j \in 1 .. count : bundle.entries[j].channel = Channels[j]

Sent(count) == IsSequence(bundle.values) /\ Len(bundle.values) = Mark[count + 1]

InLayout ==
    /\ phase = "layout" /\ at <= N + 1 /\ LaidOut(at - 1) /\ Proved(0) /\ Sent(0) /\ Fresh
InProximity ==
    /\ phase = "proximity" /\ at = 1 /\ LaidOut(N) /\ Rooted /\ Proved(0) /\ Sent(0) /\ Fresh
InSumcheck ==
    /\ phase = "sumcheck" /\ at <= N + 1
    /\ LaidOut(N) /\ Rooted /\ Opened /\ Proved(at - 1) /\ Sent(0) /\ Fresh
InClaims ==
    /\ phase = "claims" /\ at <= N + 1
    /\ LaidOut(N) /\ Rooted /\ Opened /\ Proved(N) /\ Sent(at - 1) /\ Fresh
InSent ==
    /\ phase = "sent" /\ LaidOut(N) /\ Rooted /\ Opened /\ Proved(N) /\ Sent(N) /\ Fresh

(* The bundle as it arrives: each fault leaves its mark. *)
Delivered ==
    /\ bundle.proximity = ProximityGamma(Root, bundle.proximity[3], case.prover.seed)
    /\ bundle.rootA = RootA
    /\ bundle.rootB = IF case.fault = "no root b" THEN <<>> ELSE RootB
    /\ case.fault = "params" => bundle.params # "v4"
    /\ IF case.fault = "tag lost" THEN Len(bundle.tags) # MacHalfCount ELSE bundle.tags = TagsMade
    /\ case.fault = "indices" => bundle.openingsA.indices = <<>>
    /\ case.fault = "indices b" => bundle.openingsB.indices = <<>>
    /\ Len(bundle.entries) = IF case.fault = "entry lost" THEN N - 1 ELSE N
    /\ case.fault = "entries swapped" => bundle.entries[1].channel = Channels[7]
    /\ case.fault \notin {"entry lost", "entries swapped"} =>
            \A j \in 1 .. N : bundle.entries[j].channel = Channels[j]
    /\ case.fault = "value lost" => Len(bundle.values) = Mark[N + 1] - 1
    /\ case.fault = "value added" => Len(bundle.values) = Mark[N + 1] + 1
    /\ case.fault = "value changed" => bundle.values[7] = Value(0, "ax", 4)

InSetup ==
    /\ phase = "setup" /\ at = 1 /\ claims = <<>>
    /\ LaidOut(N) /\ Delivered /\ Fresh

SeenShaped ==
    /\ DOMAIN seen = SeenFields /\ DOMAIN seen.signers = DOMAIN Expected.projections
    /\ \A s \in DOMAIN Expected.projections : DOMAIN seen.signers[s] = Kept

(* The verifier's layouts are the prover's as soon as its walk is. *)
ExpectedLaidOut(count) ==
    /\ IsSequence(layouts.verifier) /\ Len(layouts.verifier) = count
    /\ VerifierInsts = Insts => \A j \in 1 .. count : layouts.verifier[j] = LayoutAt[j]

InShapes ==
    /\ phase = "shapes" /\ at <= Len(VerifierInsts) + 1 /\ claims = <<>> /\ cursor = 0
    /\ LaidOut(N) /\ Delivered /\ SetupVerdict = "ok" /\ SeenShaped
    /\ ExpectedLaidOut(at - 1)

(* What the counts and the openings leave possible. *)
Agreed ==
    /\ Expected.mode = case.prover.mode /\ Expected.seed = case.prover.seed
    /\ Len(Expected.projections) = Len(case.prover.projections)
    /\ VerifierInsts = Insts /\ VerifierRoot = Root
    /\ case.fault \notin MdocFaults \cup {"params", "entry lost", "indices"}

Within(x, s) == \E k \in 1 .. Len(s) : s[k] = x

TakenAt(j) == SubSeq(bundle.values, Mark[j] + 1, Mark[j] + SentCounts[j])

Channeled(j) ==
    bundle.entries[j].channel = InstanceChannel(Insts[j], Expected, Root, Av, TagsMade)

(* The claims made of an instance that has been passed, and what is kept of it. *)
PublicClaimed(j) ==
    LET inst == Insts[j]
        projection == Expected.projections[inst.signer + 1]
    IN  inst.label # "mac" => \A name \in PublicNames(inst.label) :
            projection[name] # None =>
                Within(FixedClaim(LayoutAt[j], Position(inst.label, name),
                                  Value(inst.signer, name, projection[name])), claims)

PrivateClaimed(j) ==
    LET inst == Insts[j]
        names == PrivateNames(case.prover.mode, inst)
    IN  inst.label # "mac" => \A i \in 1 .. SentCounts[j] :
            Within(FixedClaim(LayoutAt[j], Position(inst.label, names[i]), TakenAt(j)[i]), claims)

MacClaimed(j) ==
    Insts[j].label = "mac" => \A h \in 1 .. MacHalfCount :
        Within(FixedClaim(LayoutAt[j], 3 * h - 1, TakenAt(j)[4 + h]), claims)

KeptOf(j) ==
    LET inst == Insts[j]
    IN  /\ inst.label \in Kept => seen.signers[inst.signer + 1][inst.label] = TakenAt(j)
        /\ inst.label = "c3" /\ RoleNames(case.prover.mode, inst) # <<>> => seen.z = TakenAt(j)[1]
        /\ inst.label = "c2" /\ RoleNames(case.prover.mode, inst) # <<>> =>
                seen.qx = TakenAt(j)[1] /\ seen.qy = TakenAt(j)[2]
        /\ inst.label = "mac" => \A h \in 1 .. MacHalfCount : seen.mac[h] = TakenAt(j)[4 + h]

Passed(j) ==
    Channeled(j) /\ PublicClaimed(j) /\ PrivateClaimed(j) /\ MacClaimed(j) /\ KeptOf(j)

InInstances ==
    /\ phase = "instances" /\ at <= N + 1
    /\ LaidOut(N) /\ Delivered /\ Agreed /\ SeenShaped
    /\ IsSequence(claims) /\ cursor = Mark[at]
    /\ \A j \in 1 .. N : layouts.verifier[j] = LayoutAt[j]
    /\ \A j \in 1 .. at - 1 : Passed(j)

Bound ==
    AcceptedIsIntended /\ AcceptedIsOnePoint /\ AcceptedIsPublished /\ AcceptedMacIsOverSigned

InAnswered == phase = "answered" /\ Bound

IInv ==
    /\ Shaped
    /\ \/ InLayout \/ InProximity \/ InSumcheck \/ InClaims \/ InSent
       \/ InSetup \/ InShapes \/ InInstances \/ InAnswered

-----------------------------------------------------------------------------
(* The prover's steps.                                                     *)

LEMMA Starts == Init => IInv
<1> SUFFICES ASSUME Init PROVE IInv
  OBVIOUS
<1>1. /\ case \in Cases /\ phase = "layout" /\ at = 1 /\ cursor = 0 /\ outcome = "none"
      /\ DOMAIN layouts = {"prover", "verifier"} /\ layouts.verifier = <<>>
      /\ DOMAIN bundle = BundleFields
      /\ bundle.groupA = <<>> /\ bundle.entries = <<>> /\ bundle.values = <<>>
  BY DEF Init, BundleFields
<1>2. Shaped /\ Fresh
  BY <1>1 DEF Shaped, Fresh
<1>3. IsSequence(<<>>) /\ Len(<<>>) = 0
  BY Single
<1>4. Place[1] = 0 /\ Mark[1] = 0
  BY <1>1, PlaceSteps, MarkSteps
<1>5. LaidOut(0) /\ Proved(0) /\ Sent(0)
  BY <1>1, <1>3, <1>4 DEF LaidOut, Proved, Sent
<1>6. at <= N + 1 /\ at - 1 = 0
  <2>1. N \in Nat
    BY <1>1, CaseFacts
  <2> QED BY <1>1, <2>1
<1>7. InLayout
  BY <1>1, <1>2, <1>5, <1>6 DEF InLayout
<1> QED BY <1>2, <1>7 DEF IInv

Grown(c) == bundle.groupA \o Inputs[c] \o Pads(Insts[c].label)

LEMMA LaidOutGrows ==
    ASSUME case \in Cases, NEW c \in 1 .. N, LaidOut(c - 1)
    PROVE  /\ IsSequence(Grown(c)) /\ Len(Grown(c)) = Place[c + 1]
           /\ \A j \in 1 .. c : \A i \in 1 .. Len(Inputs[j]) :
                 Grown(c)[Place[j] + i] = Inputs[j][i]
<1> DEFINE g == Grown(c)
           a == bundle.groupA
           u == Inputs[c]
           p == Pads(Insts[c].label)
           n == PadLen[Insts[c].label]
<1>1. IsSequence(a) /\ Len(a) = Place[c]
  <2>1. N \in Nat
    BY CaseFacts
  <2>2. (c - 1) + 1 = c
    BY <2>1
  <2> QED BY <2>2 DEF LaidOut
<1>2. /\ Place[c] \in Nat /\ Len(u) \in Nat /\ n \in Nat
      /\ Place[c + 1] = Place[c] + Len(u) + n
  <2>1. N \in Nat
    BY CaseFacts
  <2>2. c \in 1 .. N + 1
    BY <2>1
  <2> QED BY <2>2, PlaceSteps
<1>3. IsSequence(u)
  BY InputFacts
<1>4. IsSequence(p) /\ Len(p) = n
  <2>1. p = [i \in 1 .. n |-> <<"pad", Insts[c].label, i>>]
    BY DEF Pads
  <2> HIDE DEF p, n
  <2>2. p = [i \in 1 .. n |-> p[i]]
    BY <2>1
  <2> QED BY <1>2, <2>2, Tabulated
<1> HIDE DEF g, a, u, p, n
<1>0. IsSequence(a)
  BY <1>1
<1>5. /\ IsSequence(a \o u) /\ Len(a \o u) = Len(a) + Len(u)
      /\ \A i \in 1 .. Len(a) : (a \o u)[i] = a[i]
      /\ \A i \in 1 .. Len(u) : (a \o u)[Len(a) + i] = u[i]
  BY <1>0, <1>3, Joined
<1> DEFINE au == a \o u
<1>6. g = au \o p
  BY DEF g, a, u, p, Grown
<1>7. /\ IsSequence(g) /\ Len(g) = Len(au) + Len(p)
      /\ \A i \in 1 .. Len(au) : g[i] = au[i]
  <2>1. IsSequence(au)
    BY <1>5
  <2>2. IsSequence(p)
    BY <1>4
  <2> HIDE DEF au
  <2>3. /\ IsSequence(au \o p) /\ Len(au \o p) = Len(au) + Len(p)
        /\ \A i \in 1 .. Len(au) : (au \o p)[i] = au[i]
    BY <2>1, <2>2, Joined
  <2> QED BY <1>6, <2>3
<1>8. Len(g) = Place[c + 1]
  BY <1>1, <1>2, <1>4, <1>5, <1>7
<1>9. ASSUME NEW j \in 1 .. c, NEW i \in 1 .. Len(Inputs[j])
      PROVE  g[Place[j] + i] = Inputs[j][i]
  <2>1. CASE j = c
    <3>1. i \in 1 .. Len(u) /\ Inputs[j][i] = u[i]
      BY <2>1 DEF u
    <3>3. Len(a) \in Nat /\ Len(au) = Len(a) + Len(u) /\ Place[j] = Len(a)
      BY <1>1, <1>2, <1>5, <2>1
    <3>2. Place[j] + i = Len(a) + i /\ Len(a) + i \in 1 .. Len(au)
      <4> HIDE DEF au
      <4> QED BY <1>2, <3>1, <3>3
    <3> QED BY <1>5, <1>7, <3>1, <3>2
  <2>2. CASE j # c
    <3>1. N \in Nat
      BY CaseFacts
    <3>2. j \in 1 .. c - 1 /\ j \in 1 .. N /\ j \in 1 .. N + 1 /\ c \in j + 1 .. N + 1
      BY <2>2, <3>1
    <3>3. /\ Place[j] \in Nat /\ Len(Inputs[j]) \in Nat /\ PadLen[Insts[j].label] \in Nat
          /\ Place[j + 1] = Place[j] + Len(Inputs[j]) + PadLen[Insts[j].label]
          /\ Place[j + 1] <= Place[c]
      BY <3>2, PlaceSteps
    <3>4. Place[j] + i \in 1 .. Len(a) /\ Place[j] + i \in 1 .. Len(au)
      <4>1. i \in Int /\ 1 <= i /\ i <= Len(Inputs[j])
        BY <3>3
      <4>2. Place[j] + i \in 1 .. Place[c]
        <5> DEFINE x == Place[j]
                   y == Place[c]
                   z == Place[j + 1]
                   l == Len(Inputs[j])
                   k == PadLen[Insts[j].label]
        <5>1. x \in Nat /\ y \in Nat /\ l \in Nat /\ k \in Nat
          BY <1>2, <3>3
        <5>2. z = x + l + k /\ z <= y /\ i \in Int /\ 1 <= i /\ i <= l
          BY <3>3, <4>1
        <5> HIDE DEF x, y, z, l, k
        <5>3. x + i \in 1 .. y
          BY <5>1, <5>2
        <5> QED BY <5>3 DEF x, y
      <4>3. Len(au) = Len(a) + Len(u)
        BY <1>5
      <4> QED BY <1>1, <1>2, <4>2, <4>3
    <3>5. a[Place[j] + i] = Inputs[j][i]
      BY <3>2 DEF LaidOut, a
    <3> QED BY <1>5, <1>7, <3>4, <3>5
  <2> QED BY <2>1, <2>2
<1> QED BY <1>7, <1>8, <1>9 DEF g

LEMMA LayOutKeeps ==
    ASSUME Shaped, InLayout, LayOut
    PROVE  IInv'
<1>1. /\ case \in Cases /\ at \in Nat \ {0} /\ DOMAIN bundle = BundleFields
      /\ DOMAIN layouts = {"prover", "verifier"} /\ outcome = "none" /\ phase = "layout"
  BY DEF Shaped, InLayout
<1>2. /\ case' = case /\ phase' = phase /\ at' = at + 1 /\ cursor' = cursor /\ outcome' = outcome
  BY DEF LayOut
<1>3. N \in Nat /\ at \in 1 .. N
  <2>1. N \in Nat
    BY <1>1, CaseFacts
  <2> QED BY <1>1, <2>1 DEF LayOut, N
<1> DEFINE g == Grown(at)
<1>4. /\ DOMAIN bundle' = BundleFields /\ bundle'.groupA = g
      /\ bundle'.entries = bundle.entries /\ bundle'.values = bundle.values
  <2>1. InputOf(Insts[at]) = Inputs[at]
    BY <1>3 DEF Inputs
  <2>2. bundle' = [bundle EXCEPT !.groupA = bundle.groupA \o InputOf(Insts[at]) \o Pads(Insts[at].label)]
    BY DEF LayOut
  <2>3. bundle' = [bundle EXCEPT !.groupA = g]
    BY <2>1, <2>2 DEF Grown
  <2> HIDE DEF g
  <2> QED BY <1>1, <2>3 DEF BundleFields
<1>5. DOMAIN layouts' = {"prover", "verifier"} /\ layouts'.verifier = layouts.verifier
  BY <1>1 DEF LayOut
<1>6. /\ IsSequence(g) /\ Len(g) = Place[at + 1]
      /\ \A j \in 1 .. at : \A i \in 1 .. Len(Inputs[j]) : g[Place[j] + i] = Inputs[j][i]
  <2>1. LaidOut(at - 1)
    BY DEF InLayout
  <2> QED BY <1>1, <1>3, <2>1, LaidOutGrows
<1> HIDE DEF g
<1>7. /\ N' = N /\ Place' = Place /\ Inputs' = Inputs /\ Mark' = Mark /\ Channels' = Channels
  BY <1>2, CaseKept
<1>8. at' <= N' + 1 /\ at' - 1 = at /\ at' \in Nat \ {0} /\ (at' - 1) + 1 = at + 1
  BY <1>2, <1>3, <1>7
<1>9. LaidOut(at - 1)'
  <2>1. IsSequence(bundle'.groupA) /\ Len(bundle'.groupA) = Place'[(at' - 1) + 1]
    BY <1>4, <1>6, <1>7, <1>8
  <2>2. \A j \in 1 .. at' - 1 : \A i \in 1 .. Len(Inputs'[j]) :
            bundle'.groupA[Place'[j] + i] = Inputs'[j][i]
    BY <1>4, <1>6, <1>7, <1>8
  <2> QED BY <2>1, <2>2 DEF LaidOut
<1>10. Proved(0)' /\ Sent(0)' /\ Fresh'
  BY <1>2, <1>4, <1>5, <1>7 DEF InLayout, Proved, Sent, Fresh
<1>11. Shaped'
  BY <1>1, <1>2, <1>4, <1>5, <1>8 DEF Shaped
<1>12. InLayout'
  BY <1>1, <1>2, <1>8, <1>9, <1>10 DEF InLayout
<1> QED BY <1>11, <1>12 DEF IInv

LEMMA LaidOutStays ==
    ASSUME case' = case, bundle'.groupA = bundle.groupA, LaidOut(N)
    PROVE  LaidOut(N)'
<1>1. N' = N /\ Place' = Place /\ Inputs' = Inputs
  BY CaseKept
<1> QED BY <1>1 DEF LaidOut

LEMMA ProvedStays ==
    ASSUME case' = case, bundle'.entries = bundle.entries
    PROVE  (Proved(0) => Proved(0)') /\ (Proved(N) => Proved(N)')
<1>1. N' = N /\ Channels' = Channels
  BY CaseKept
<1> QED BY <1>1 DEF Proved

LEMMA SentStays ==
    ASSUME case' = case, bundle'.values = bundle.values
    PROVE  (Sent(0) => Sent(0)') /\ (Sent(N) => Sent(N)')
<1>1. N' = N /\ Mark' = Mark
  BY CaseKept
<1> QED BY <1>1 DEF Sent

LEMMA RootedStays ==
    ASSUME case' = case, Rooted,
           bundle'.rootA = bundle.rootA, bundle'.rootB = bundle.rootB, bundle'.tags = bundle.tags
    PROVE  Rooted'
<1>1. RootA' = RootA /\ RootB' = RootB /\ TagsMade' = TagsMade
  BY CaseKept
<1> QED BY <1>1 DEF Rooted

LEMMA OpenedStays ==
    ASSUME case' = case, Opened, bundle'.proximity = bundle.proximity,
           bundle'.openingsA = bundle.openingsA, bundle'.openingsB = bundle.openingsB
    PROVE  Opened'
<1>1. Root' = Root /\ IsMdoc' = IsMdoc
  BY CaseKept
<1> QED BY <1>1 DEF Opened

LEMMA RootedRoot ==
    ASSUME Rooted
    PROVE  RootOf(bundle, case.prover.mode) = Root
BY DEF Rooted, RootOf, Root, IsMdoc

LEMMA CommitKeeps ==
    ASSUME Shaped, InLayout, Commit
    PROVE  IInv'
<1>1. /\ case \in Cases /\ at \in Nat \ {0} /\ DOMAIN bundle = BundleFields
      /\ DOMAIN layouts = {"prover", "verifier"} /\ outcome = "none" /\ at <= N + 1
  BY DEF Shaped, InLayout
<1>2. /\ case' = case /\ phase' = "proximity" /\ at' = 1 /\ layouts' = layouts
      /\ cursor' = cursor /\ outcome' = outcome /\ at > N
  BY DEF Commit, N
<1>3. N \in Nat /\ at - 1 = N
  <2>1. N \in Nat
    BY <1>1, CaseFacts
  <2> QED BY <1>1, <1>2, <2>1
<1>4. bundle' = [bundle EXCEPT
            !.rootA = RootA, !.rootB = RootB, !.tags = TagsMade,
            !.groupB = IF IsMdoc THEN [h \in 1 .. MacHalfCount |-> Quotient(h, Av, HalfValue(h))]
                       ELSE <<>>]
  BY DEF Commit, RootA, RootB, TagsMade, Av, IsMdoc
<1>5. /\ DOMAIN bundle' = BundleFields /\ bundle'.groupA = bundle.groupA
      /\ bundle'.entries = bundle.entries /\ bundle'.values = bundle.values
      /\ bundle'.rootA = RootA /\ bundle'.rootB = RootB /\ bundle'.tags = TagsMade
  BY <1>1, <1>4 DEF BundleFields
<1>6. Rooted'
  <2>1. RootA' = RootA /\ RootB' = RootB /\ TagsMade' = TagsMade
    BY <1>2, CaseKept
  <2> QED BY <1>5, <2>1 DEF Rooted
<1>7. LaidOut(N)'
  <2>1. LaidOut(N)
    BY <1>3 DEF InLayout
  <2> QED BY <1>2, <1>5, <2>1, LaidOutStays
<1>8. Proved(0)' /\ Sent(0)'
  BY <1>2, <1>5, ProvedStays, SentStays DEF InLayout
<1>9. Fresh'
  BY <1>2 DEF InLayout, Fresh
<1>10. Shaped'
  BY <1>1, <1>2, <1>5 DEF Shaped
<1>11. InProximity'
  BY <1>2, <1>6, <1>7, <1>8, <1>9 DEF InProximity
<1> QED BY <1>10, <1>11 DEF IInv

LEMMA ProximityKeeps ==
    ASSUME Shaped, InProximity, Proximity
    PROVE  IInv'
<1>1. /\ case \in Cases /\ DOMAIN bundle = BundleFields /\ at = 1
      /\ DOMAIN layouts = {"prover", "verifier"} /\ outcome = "none"
  BY DEF Shaped, InProximity
<1>2. /\ case' = case /\ phase' = "sumcheck" /\ at' = at /\ layouts' = layouts
      /\ cursor' = cursor /\ outcome' = outcome
  BY DEF Proximity
<1>3. RootOf(bundle, case.prover.mode) = Root
  BY RootedRoot DEF InProximity
<1> DEFINE rows == RowCount(Len(bundle.groupA))
                   + (IF case.prover.mode = "mdoc" THEN RowCount(MacHalfCount) ELSE 0)
           open(r) == [root |-> r, indices |-> ProximityIndices(Root, case.prover.seed)]
           both == IF case.prover.mode = "mdoc" THEN open(bundle.rootB) ELSE <<>>
<1>4. bundle' = [bundle EXCEPT
            !.proximity = ProximityGamma(Root, rows, case.prover.seed),
            !.openingsA = open(bundle.rootA), !.openingsB = both]
  BY <1>3 DEF Proximity
<1> HIDE DEF rows, open, both
<1>5. /\ DOMAIN bundle' = BundleFields /\ bundle'.groupA = bundle.groupA
      /\ bundle'.entries = bundle.entries /\ bundle'.values = bundle.values
      /\ bundle'.rootA = bundle.rootA /\ bundle'.rootB = bundle.rootB
      /\ bundle'.tags = bundle.tags
      /\ bundle'.proximity = ProximityGamma(Root, rows, case.prover.seed)
      /\ bundle'.openingsA = open(bundle.rootA) /\ bundle'.openingsB = both
  BY <1>1, <1>4 DEF BundleFields
<1>6. Opened'
  <2>1. Root' = Root /\ IsMdoc' = IsMdoc
    BY <1>2, CaseKept
  <2>2. bundle'.proximity[3] = rows
    BY <1>5 DEF ProximityGamma
  <2>3. "indices" \in DOMAIN bundle'.openingsA
    BY <1>5 DEF open
  <2>4. IsMdoc => "indices" \in DOMAIN bundle'.openingsB
    BY <1>5 DEF open, both, IsMdoc
  <2> QED BY <1>2, <1>5, <2>1, <2>2, <2>3, <2>4 DEF Opened
<1>7. LaidOut(N)' /\ Proved(0)' /\ Sent(0)' /\ Rooted'
  BY <1>2, <1>5, LaidOutStays, ProvedStays, SentStays, RootedStays DEF InProximity
<1>8. Fresh'
  BY <1>2 DEF InProximity, Fresh
<1>9. Shaped'
  BY <1>1, <1>2, <1>5 DEF Shaped
<1>10. at' <= N' + 1 /\ at' - 1 = 0
  <2>1. N \in Nat /\ N' = N
    BY <1>1, <1>2, CaseFacts, CaseKept
  <2> QED BY <1>1, <1>2, <2>1
<1>11. InSumcheck'
  <2>1. Proved(at - 1)'
    BY <1>7, <1>10 DEF Proved
  <2> QED BY <1>2, <1>6, <1>7, <1>8, <1>10, <2>1 DEF InSumcheck
<1> QED BY <1>9, <1>11 DEF IInv

LEMMA ProveInstanceKeeps ==
    ASSUME Shaped, InSumcheck, ProveInstance
    PROVE  IInv'
<1>1. /\ case \in Cases /\ at \in Nat \ {0} /\ DOMAIN bundle = BundleFields
      /\ DOMAIN layouts = {"prover", "verifier"} /\ outcome = "none" /\ phase = "sumcheck"
  BY DEF Shaped, InSumcheck
<1>2. /\ case' = case /\ phase' = phase /\ at' = at + 1 /\ layouts' = layouts
      /\ cursor' = cursor /\ outcome' = outcome
  BY DEF ProveInstance
<1>3. N \in Nat /\ at \in 1 .. N
  <2>1. N \in Nat
    BY <1>1, CaseFacts
  <2> QED BY <1>1, <2>1 DEF ProveInstance, N
<1> DEFINE e == [channel |-> Channels[at], input |-> InputOf(Insts[at]),
                 pads |-> Pads(Insts[at].label),
                 quotients |-> IF Insts[at].label = "mac" THEN bundle.groupB ELSE <<>>]
           es == Append(bundle.entries, e)
<1>4. bundle' = [bundle EXCEPT !.entries = es]
  <2>1. RootOf(bundle, case.prover.mode) = Root
    BY RootedRoot DEF InSumcheck
  <2>2. DrawAv(case.prover.seed, bundle.rootA) = Av /\ bundle.tags = TagsMade
    BY DEF InSumcheck, Rooted, Av
  <2>3. Channels[at] = InstanceChannel(Insts[at], case.prover, Root, Av, TagsMade)
    BY <1>3 DEF Channels
  <2> QED BY <2>1, <2>2, <2>3 DEF ProveInstance
<1>5. e.channel = Channels[at]
  OBVIOUS
<1>6. IsSequence(bundle.entries)
  BY DEF InSumcheck, Proved
<1> HIDE DEF e
<1>7. /\ IsSequence(es) /\ Len(es) = Len(bundle.entries) + 1
      /\ \A i \in 1 .. Len(bundle.entries) : es[i] = bundle.entries[i]
      /\ es[Len(bundle.entries) + 1] = e
  BY <1>6, Appended
<1> HIDE DEF es
<1>8. /\ DOMAIN bundle' = BundleFields /\ bundle'.groupA = bundle.groupA
      /\ bundle'.entries = es /\ bundle'.values = bundle.values
      /\ bundle'.rootA = bundle.rootA /\ bundle'.rootB = bundle.rootB
      /\ bundle'.tags = bundle.tags /\ bundle'.proximity = bundle.proximity
      /\ bundle'.openingsA = bundle.openingsA /\ bundle'.openingsB = bundle.openingsB
  BY <1>1, <1>4 DEF BundleFields
<1>9. N' = N /\ Channels' = Channels
  BY <1>2, CaseKept
<1>10. Proved(at - 1)'
  <2>1. /\ Len(bundle.entries) = at - 1
        /\ \A j \in 1 .. at - 1 : bundle.entries[j].channel = Channels[j]
    BY DEF InSumcheck, Proved
  <2>2. Len(es) = at /\ at' - 1 = at
    BY <1>2, <1>3, <1>7, <2>1
  <2>3. ASSUME NEW j \in 1 .. at
        PROVE  es[j].channel = Channels[j]
    <3>1. CASE j = at
      <4>1. es[at] = e
        BY <1>3, <1>7, <2>1
      <4> QED BY <1>5, <3>1, <4>1
    <3>2. CASE j # at
      <4>1. j \in 1 .. at - 1
        BY <1>3, <3>2
      <4> QED BY <1>7, <2>1, <4>1
    <3> QED BY <3>1, <3>2
  <2> QED BY <1>7, <1>8, <1>9, <2>2, <2>3 DEF Proved
<1>11. LaidOut(N)' /\ Sent(0)' /\ Rooted' /\ Opened'
  BY <1>2, <1>8, LaidOutStays, SentStays, RootedStays, OpenedStays DEF InSumcheck
<1>12. Fresh'
  BY <1>2 DEF InSumcheck, Fresh
<1>13. at' <= N' + 1 /\ at' \in Nat \ {0}
  BY <1>2, <1>3, <1>9
<1>14. Shaped'
  BY <1>1, <1>2, <1>8, <1>13 DEF Shaped
<1>15. InSumcheck'
  BY <1>1, <1>2, <1>10, <1>11, <1>12, <1>13 DEF InSumcheck
<1> QED BY <1>14, <1>15 DEF IInv

LEMMA StartClaimsKeeps ==
    ASSUME Shaped, InSumcheck, StartClaims
    PROVE  IInv'
<1>1. /\ case \in Cases /\ at \in Nat \ {0} /\ at <= N + 1
  BY DEF Shaped, InSumcheck
<1>2. /\ case' = case /\ phase' = "claims" /\ at' = 1 /\ layouts' = layouts /\ bundle' = bundle
      /\ cursor' = cursor /\ outcome' = outcome /\ at > N
  BY DEF StartClaims, N
<1>3. N \in Nat /\ at - 1 = N /\ N' = N
  <2>1. N \in Nat /\ N' = N
    BY <1>1, <1>2, CaseFacts, CaseKept
  <2> QED BY <1>1, <1>2, <2>1
<1>4. Proved(N)
  BY <1>3 DEF InSumcheck
<1>5. LaidOut(N)' /\ Proved(N)' /\ Sent(0)' /\ Rooted' /\ Opened'
  BY <1>2, <1>4, LaidOutStays, ProvedStays, SentStays, RootedStays, OpenedStays DEF InSumcheck
<1>6. Sent(at - 1)'
  BY <1>2, <1>5 DEF Sent
<1>7. Fresh'
  BY <1>2 DEF InSumcheck, Fresh
<1>8. Shaped'
  BY <1>2 DEF Shaped, InSumcheck
<1>9. InClaims'
  BY <1>2, <1>3, <1>5, <1>6, <1>7 DEF InClaims
<1> QED BY <1>8, <1>9 DEF IInv

(* What is sent of an instance has the length that the verifier will take. *)
LEMMA SentLen ==
    ASSUME case \in Cases, NEW j \in 1 .. N, NEW entry
    PROVE  IsSequence(SentValues(Insts[j], entry)) /\ Len(SentValues(Insts[j], entry)) = SentCounts[j]
<1> DEFINE v == SentValues(Insts[j], entry)
<1>1. Insts[j].label \in Labels
  BY InstanceFacts
<1>2. CASE Insts[j].label = "mac"
  <2> DEFINE a == SplitValues(entry)
             b == [h \in 1 .. MacHalfCount |-> HalfValue(h)]
  <2>1. v = a \o b /\ SentCounts[j] = 10
    BY <1>2 DEF SentValues, SentCounts, MacHalfCount
  <2>2. IsSequence(a) /\ Len(a) = 4
    BY Tuple4 DEF SplitValues
  <2>3. IsSequence(b) /\ Len(b) = 6
    <3>1. b = [h \in 1 .. 6 |-> b[h]]
      BY DEF MacHalfCount
    <3> HIDE DEF b
    <3> QED BY <3>1, Tabulated
  <2> HIDE DEF a, b, v
  <2>4. IsSequence(a) /\ IsSequence(b)
    BY <2>2, <2>3
  <2>5. IsSequence(a \o b) /\ Len(a \o b) = Len(a) + Len(b)
    BY <2>4, Joined
  <2>6. Len(v) = 10
    BY <2>1, <2>2, <2>3, <2>5
  <2> QED BY <2>1, <2>5, <2>6 DEF v
<1>3. CASE Insts[j].label # "mac"
  <2> DEFINE names == PrivateNames(case.prover.mode, Insts[j])
  <2>1. SentNames(Insts[j]) = names
    BY <1>1, <1>3, SentIsPrivate
  <2>2. Len(names) \in 0 .. 6 /\ DOMAIN names = 1 .. Len(names)
    BY <1>1, <1>3, PrivateNamesOf
  <2>3. SentCounts[j] = Len(names)
    BY <1>3 DEF SentCounts
  <2>4. v = [i \in DOMAIN names |-> CellValue(Insts[j].signer, Insts[j].label, names[i])]
    BY <1>3, <2>1 DEF SentValues
  <2> HIDE DEF names, v
  <2>5. v = [i \in 1 .. Len(names) |-> v[i]] /\ Len(names) \in Nat
    BY <2>2, <2>4
  <2>6. IsSequence(v) /\ Len(v) = Len(names)
    BY <2>5, Tabulated
  <2> QED BY <2>3, <2>6 DEF v
<1> QED BY <1>2, <1>3

LEMMA ClaimInstanceKeeps ==
    ASSUME Shaped, InClaims, ClaimInstance
    PROVE  IInv'
<1>1. /\ case \in Cases /\ at \in Nat \ {0} /\ DOMAIN bundle = BundleFields
      /\ DOMAIN layouts = {"prover", "verifier"} /\ outcome = "none" /\ phase = "claims"
  BY DEF Shaped, InClaims
<1>2. /\ case' = case /\ phase' = phase /\ at' = at + 1 /\ layouts' = layouts
      /\ cursor' = cursor /\ outcome' = outcome
  BY DEF ClaimInstance
<1>3. N \in Nat /\ at \in 1 .. N
  <2>1. N \in Nat
    BY <1>1, CaseFacts
  <2> QED BY <1>1, <2>1 DEF ClaimInstance, N
<1> DEFINE s == SentValues(Insts[at], bundle.entries[at])
           v == bundle.values \o s
<1>4. bundle' = [bundle EXCEPT !.values = v]
  BY DEF ClaimInstance
<1>5. IsSequence(s) /\ Len(s) = SentCounts[at]
  BY <1>1, <1>3, SentLen
<1>6. IsSequence(bundle.values) /\ Len(bundle.values) = Mark[at]
  <2>1. (at - 1) + 1 = at
    BY <1>3
  <2> QED BY <2>1 DEF InClaims, Sent
<1> HIDE DEF s
<1>7. IsSequence(v) /\ Len(v) = Len(bundle.values) + Len(s)
  <2>1. IsSequence(s)
    BY <1>5
  <2>2. IsSequence(bundle.values)
    BY <1>6
  <2> QED BY <2>1, <2>2, Joined
<1> HIDE DEF v
<1>8. Len(v) = Mark[at + 1]
  <2>1. Mark[at + 1] = Mark[at] + SentCounts[at]
    BY <1>1, <1>3, MarkSteps
  <2> QED BY <1>5, <1>6, <1>7, <2>1
<1>9. /\ DOMAIN bundle' = BundleFields /\ bundle'.groupA = bundle.groupA
      /\ bundle'.entries = bundle.entries /\ bundle'.values = v
      /\ bundle'.rootA = bundle.rootA /\ bundle'.rootB = bundle.rootB
      /\ bundle'.tags = bundle.tags /\ bundle'.proximity = bundle.proximity
      /\ bundle'.openingsA = bundle.openingsA /\ bundle'.openingsB = bundle.openingsB
  BY <1>1, <1>4 DEF BundleFields
<1>10. N' = N /\ Mark' = Mark
  BY <1>2, CaseKept
<1>11. Sent(at - 1)'
  <2>1. (at' - 1) + 1 = at + 1
    BY <1>2, <1>3
  <2> QED BY <1>7, <1>8, <1>9, <1>10, <2>1 DEF Sent
<1>12. LaidOut(N)' /\ Proved(N)' /\ Rooted' /\ Opened'
  BY <1>2, <1>9, LaidOutStays, ProvedStays, RootedStays, OpenedStays DEF InClaims
<1>13. Fresh'
  BY <1>2 DEF InClaims, Fresh
<1>14. at' <= N' + 1 /\ at' \in Nat \ {0}
  BY <1>2, <1>3, <1>10
<1>15. Shaped'
  BY <1>1, <1>2, <1>9, <1>14 DEF Shaped
<1>16. InClaims'
  BY <1>1, <1>2, <1>11, <1>12, <1>13, <1>14 DEF InClaims
<1> QED BY <1>15, <1>16 DEF IInv

LEMMA BatchKeeps ==
    ASSUME Shaped, InClaims, Batch
    PROVE  IInv'
<1>1. /\ case \in Cases /\ at \in Nat \ {0} /\ DOMAIN bundle = BundleFields
      /\ DOMAIN layouts = {"prover", "verifier"} /\ outcome = "none" /\ at <= N + 1
  BY DEF Shaped, InClaims
<1>2. /\ case' = case /\ phase' = "sent" /\ at' = at /\ layouts' = layouts
      /\ cursor' = cursor /\ outcome' = outcome /\ at > N
  BY DEF Batch, N
<1>3. N \in Nat /\ at - 1 = N
  <2>1. N \in Nat
    BY <1>1, CaseFacts
  <2> QED BY <1>1, <1>2, <2>1
<1>4. PICK batch : bundle' = [bundle EXCEPT !.batch = batch]
  BY DEF Batch
<1>5. /\ DOMAIN bundle' = BundleFields /\ bundle'.groupA = bundle.groupA
      /\ bundle'.entries = bundle.entries /\ bundle'.values = bundle.values
      /\ bundle'.rootA = bundle.rootA /\ bundle'.rootB = bundle.rootB
      /\ bundle'.tags = bundle.tags /\ bundle'.proximity = bundle.proximity
      /\ bundle'.openingsA = bundle.openingsA /\ bundle'.openingsB = bundle.openingsB
  BY <1>1, <1>4 DEF BundleFields
<1>6. Sent(N)
  BY <1>3 DEF InClaims
<1>7. LaidOut(N)' /\ Proved(N)' /\ Sent(N)' /\ Rooted' /\ Opened'
  BY <1>2, <1>5, <1>6, LaidOutStays, ProvedStays, SentStays, RootedStays, OpenedStays DEF InClaims
<1>8. Fresh'
  BY <1>2 DEF InClaims, Fresh
<1>9. Shaped'
  BY <1>1, <1>2, <1>5 DEF Shaped
<1>10. InSent'
  BY <1>2, <1>7, <1>8 DEF InSent
<1> QED BY <1>9, <1>10 DEF IInv

-----------------------------------------------------------------------------
(* On the way.                                                             *)

LEMMA DeliverKeeps ==
    ASSUME Shaped, InSent, Deliver
    PROVE  IInv'
<1>1. /\ case \in Cases /\ at \in Nat \ {0} /\ DOMAIN bundle = BundleFields
      /\ DOMAIN layouts = {"prover", "verifier"} /\ outcome = "none"
  BY DEF Shaped, InSent
<1>2. /\ case' = case /\ phase' = "setup" /\ at' = 1 /\ layouts' = layouts /\ claims' = <<>>
      /\ cursor' = cursor /\ outcome' = outcome /\ bundle' = Received(bundle, case.fault)
  BY DEF Deliver
<1>3. case.fault \in Faults /\ (case.fault \in MdocFaults => IsMdoc) /\ N \in Nat /\ N >= 6
  BY <1>1, CaseFacts
<1> DEFINE f == case.fault
           b == bundle
           c == bundle'
           swapped == [b.entries EXCEPT ![1] = b.entries[7], ![7] = b.entries[1]]
<1>4. \/ f = "none" /\ c = b
      \/ f = "no root b" /\ c = [b EXCEPT !.rootB = <<>>]
      \/ f = "params" /\ c = [b EXCEPT !.params = "other"]
      \/ f = "tag lost" /\ c = [b EXCEPT !.tags = Tail(b.tags)]
      \/ f = "entry lost" /\ c = [b EXCEPT !.entries = Front(b.entries)]
      \/ f = "entries swapped" /\ c = [b EXCEPT !.entries = swapped]
      \/ f = "value lost" /\ c = [b EXCEPT !.values = Front(b.values)]
      \/ f = "value added" /\ c = [b EXCEPT !.values = Append(b.values, Last(b.values))]
      \/ f = "value changed" /\ c = [b EXCEPT !.values = [b.values EXCEPT ![7] = Value(0, "ax", 4)]]
      \/ f = "indices" /\ c = [b EXCEPT !.openingsA = [b.openingsA EXCEPT !.indices = <<>>]]
      \/ f = "indices b" /\ c = [b EXCEPT !.openingsB = [b.openingsB EXCEPT !.indices = <<>>]]
  <2>1. \/ f = "none" \/ f = "no root b" \/ f = "params" \/ f = "tag lost" \/ f = "entry lost"
        \/ f = "entries swapped" \/ f = "value lost" \/ f = "value added"
        \/ f = "value changed" \/ f = "indices" \/ f = "indices b"
    BY <1>3 DEF Faults, MdocFaults
  <2>2. c = Received(b, f)
    BY <1>2
  <2> HIDE DEF f, b, c
  <2>3. f = "none" => c = b
    BY <2>2 DEF Received
  <2>4. f = "no root b" => c = [b EXCEPT !.rootB = <<>>]
    BY <2>2 DEF Received
  <2>5. f = "params" => c = [b EXCEPT !.params = "other"]
    BY <2>2 DEF Received
  <2>6. f = "tag lost" => c = [b EXCEPT !.tags = Tail(b.tags)]
    BY <2>2 DEF Received
  <2>7. f = "entry lost" => c = [b EXCEPT !.entries = Front(b.entries)]
    BY <2>2 DEF Received
  <2>8. f = "entries swapped" => c = [b EXCEPT !.entries = swapped]
    BY <2>2 DEF Received
  <2>9. f = "value lost" => c = [b EXCEPT !.values = Front(b.values)]
    BY <2>2 DEF Received
  <2>10. f = "value added" => c = [b EXCEPT !.values = Append(b.values, Last(b.values))]
    BY <2>2 DEF Received
  <2>11. f = "value changed" =>
            c = [b EXCEPT !.values = [b.values EXCEPT ![7] = Value(0, "ax", 4)]]
    BY <2>2 DEF Received
  <2>12. f = "indices" => c = [b EXCEPT !.openingsA = [b.openingsA EXCEPT !.indices = <<>>]]
    BY <2>2 DEF Received
  <2>13. f = "indices b" => c = [b EXCEPT !.openingsB = [b.openingsB EXCEPT !.indices = <<>>]]
    BY <2>2 DEF Received
  <2> HIDE DEF swapped
  <2> QED BY <2>1, <2>3, <2>4, <2>5, <2>6, <2>7, <2>8, <2>9, <2>10, <2>11, <2>12, <2>13
<1>5. DOMAIN b = BundleFields
  BY <1>1
<1> HIDE DEF f, b, c, swapped
<1>6. /\ DOMAIN c = BundleFields /\ c.groupA = b.groupA /\ c.rootA = b.rootA
      /\ c.proximity = b.proximity
  BY <1>4, <1>5 DEF BundleFields
<1>7. c.rootB = IF f = "no root b" THEN <<>> ELSE b.rootB
  BY <1>4, <1>5 DEF BundleFields
<1>8. f = "params" => c.params = "other"
  BY <1>4, <1>5 DEF BundleFields
<1>9. c.tags = IF f = "tag lost" THEN Tail(b.tags) ELSE b.tags
  BY <1>4, <1>5 DEF BundleFields
<1>10. c.entries = IF f = "entry lost" THEN Front(b.entries)
                   ELSE IF f = "entries swapped" THEN swapped ELSE b.entries
  BY <1>4, <1>5 DEF BundleFields
<1>11. c.values = IF f = "value lost" THEN Front(b.values)
                  ELSE IF f = "value added" THEN Append(b.values, Last(b.values))
                  ELSE IF f = "value changed" THEN [b.values EXCEPT ![7] = Value(0, "ax", 4)]
                  ELSE b.values
  BY <1>4, <1>5 DEF BundleFields
<1>12. f = "indices" => c.openingsA = [b.openingsA EXCEPT !.indices = <<>>]
  BY <1>4, <1>5 DEF BundleFields
<1>13. f = "indices b" => c.openingsB = [b.openingsB EXCEPT !.indices = <<>>]
  BY <1>4, <1>5 DEF BundleFields
<1>14. /\ b.rootA = RootA /\ b.rootB = RootB /\ b.tags = TagsMade
       /\ IsSequence(b.entries) /\ Len(b.entries) = N
       /\ \A j \in 1 .. N : b.entries[j].channel = Channels[j]
       /\ IsSequence(b.values) /\ Len(b.values) = Mark[N + 1]
  BY DEF InSent, Rooted, Proved, Sent, b
<1>15. f = "tag lost" => Len(c.tags) # MacHalfCount
  <2>1. ASSUME f = "tag lost"
        PROVE  Len(Tail(TagsMade)) = 5
    <3>1. IsMdoc
      BY <1>3, <2>1 DEF MdocFaults, f
    <3>2. TagsMade = [h \in 1 .. 6 |-> Tag(h, Av, HalfValue(h))]
      BY <3>1 DEF TagsMade, MacHalfCount
    <3> DEFINE t == TagsMade
    <3> HIDE DEF t
    <3>3. t = [h \in 1 .. 6 |-> t[h]]
      BY <3>2 DEF t
    <3>4. IsSequence(t) /\ Len(t) = 6
      BY <3>3, Tabulated
    <3> DEFINE S == {t[i] : i \in 1 .. Len(t)}
    <3>5. \A i \in 1 .. Len(t) : t[i] \in S
      OBVIOUS
    <3> HIDE DEF S
    <3>6. t \in Seq(S)
      BY <3>4, <3>5, SequenceIn
    <3>7. t # <<>>
      <4>1. Len(<<>>) = 0
        BY Single
      <4> QED BY <3>4, <4>1
    <3>8. Len(Tail(t)) = Len(t) - 1
      BY <3>6, <3>7, HeadTailProperties
    <3> QED BY <3>4, <3>8 DEF t
  <2>2. ASSUME f = "tag lost"
        PROVE  Len(c.tags) = 5
    <3>1. c.tags = Tail(TagsMade)
      BY <1>9, <1>14, <2>2
    <3> QED BY <2>1, <2>2, <3>1
  <2>3. 5 # MacHalfCount
    BY DEF MacHalfCount
  <2> QED BY <2>2, <2>3
<1>16. f # "tag lost" => c.tags = TagsMade
  BY <1>9, <1>14
<1>17. f = "indices" => c.openingsA.indices = <<>>
  <2>1. "indices" \in DOMAIN b.openingsA
    BY DEF InSent, Opened, b
  <2> QED BY <1>12, <2>1
<1>18. f = "indices b" => c.openingsB.indices = <<>>
  <2>1. IsMdoc => "indices" \in DOMAIN b.openingsB
    BY DEF InSent, Opened, b
  <2>2. f = "indices b" => IsMdoc
    BY <1>3 DEF f, MdocFaults
  <2> QED BY <1>13, <2>1, <2>2
<1>19. /\ Len(c.entries) = IF f = "entry lost" THEN N - 1 ELSE N
       /\ f = "entries swapped" => c.entries[1].channel = Channels[7]
       /\ f \notin {"entry lost", "entries swapped"} =>
            \A j \in 1 .. N : c.entries[j].channel = Channels[j]
  <2>1. CASE f = "entry lost"
    <3>1. c.entries = SubSeq(b.entries, 1, N - 1)
      BY <1>10, <1>14, <2>1 DEF Front
    <3>2. Len(SubSeq(b.entries, 1, N - 1)) = (N - 1) - 1 + 1
      BY <1>3, Cut
    <3>3. Len(c.entries) = N - 1
      BY <1>3, <3>1, <3>2
    <3> QED BY <2>1, <3>3
  <2>2. CASE f = "entries swapped"
    <3>1. Len(case.prover.projections) \in Nat /\ Len(case.prover.projections) >= 2
      BY <1>1, <2>2, CaseFacts, ProverWalk DEF f
    <3>2. N >= 12
      <4> DEFINE n == Len(case.prover.projections)
                 m == IF IsMdoc THEN 1 ELSE 0
      <4>1. N = 6 * n + m /\ m \in {0, 1}
        BY <1>1, CaseFacts
      <4> HIDE DEF m, n
      <4>2. n \in Nat /\ n >= 2
        BY <3>1 DEF n
      <4> QED BY <4>1, <4>2
    <3>3. c.entries = swapped
      BY <1>10, <2>2
    <3>4. DOMAIN b.entries = 1 .. N
      BY <1>14 DEF IsSequence
    <3>5. /\ swapped = [i \in 1 .. N |-> swapped[i]]
          /\ swapped[1] = b.entries[7]
      BY <1>3, <3>2, <3>4 DEF swapped
    <3>6. IsSequence(swapped) /\ Len(swapped) = N
      BY <1>3, <3>5, Tabulated
    <3>7. b.entries[7].channel = Channels[7]
      BY <1>3, <1>14, <3>2
    <3> QED BY <2>2, <3>3, <3>5, <3>6, <3>7
  <2>3. CASE f \notin {"entry lost", "entries swapped"}
    BY <1>10, <1>14, <2>3
  <2> QED BY <2>1, <2>2, <2>3
<1>20. /\ f = "value lost" => Len(c.values) = Mark[N + 1] - 1
       /\ f = "value added" => Len(c.values) = Mark[N + 1] + 1
       /\ f = "value changed" => c.values[7] = Value(0, "ax", 4)
  <2>0. Mark[N + 1] \in Nat /\ Mark[N + 1] >= 12
    BY <1>1, <1>3, FirstMarks, MarkSteps
  <2>1. CASE f = "value lost"
    <3>1. c.values = SubSeq(b.values, 1, Mark[N + 1] - 1)
      BY <1>11, <1>14, <2>1 DEF Front
    <3>2. Len(SubSeq(b.values, 1, Mark[N + 1] - 1)) = (Mark[N + 1] - 1) - 1 + 1
      BY <2>0, Cut
    <3>3. Len(c.values) = Mark[N + 1] - 1
      BY <2>0, <3>1, <3>2
    <3> QED BY <2>1, <3>3
  <2>2. CASE f = "value added"
    <3>1. Len(Append(b.values, Last(b.values))) = Len(b.values) + 1
      BY <1>14, Appended
    <3> QED BY <1>11, <1>14, <2>2, <3>1
  <2>3. CASE f = "value changed"
    <3>1. 7 \in DOMAIN b.values
      BY <1>14, <2>0 DEF IsSequence
    <3> QED BY <1>11, <2>3, <3>1
  <2>4. CASE f \notin {"value lost", "value added", "value changed"}
    BY <2>4
  <2> QED BY <2>1, <2>2, <2>3, <2>4
<1>21. /\ RootA' = RootA /\ RootB' = RootB /\ TagsMade' = TagsMade /\ N' = N
       /\ Channels' = Channels /\ Mark' = Mark
  BY <1>2, CaseKept
<1>22. case'.fault = f /\ bundle' = c
  BY <1>2 DEF f, c
<1>23. Delivered'
  <2>1. /\ c.rootA = RootA /\ c.rootB = IF f = "no root b" THEN <<>> ELSE RootB
        /\ f = "params" => c.params # "v4"
    BY <1>6, <1>7, <1>8, <1>14
  <2>2. c.proximity = ProximityGamma(Root, c.proximity[3], case.prover.seed)
    BY <1>6 DEF InSent, Opened, b
  <2>3. Root' = Root /\ case'.prover = case.prover
    BY <1>2, CaseKept
  <2> QED BY <1>15, <1>16, <1>17, <1>18, <1>19, <1>20, <1>21, <1>22, <2>1, <2>2, <2>3 DEF Delivered
<1>24. LaidOut(N)'
  <2>1. bundle'.groupA = bundle.groupA
    BY <1>6 DEF b, c
  <2> QED BY <1>2, <2>1, LaidOutStays DEF InSent
<1>25. Fresh'
  BY <1>2 DEF InSent, Fresh
<1>26. Shaped'
  BY <1>1, <1>2, <1>6 DEF Shaped, c
<1>27. InSetup'
  BY <1>2, <1>23, <1>24, <1>25 DEF InSetup
<1> QED BY <1>26, <1>27 DEF IInv

-----------------------------------------------------------------------------
(* The verifier's steps before its walk.                                   *)

LEMMA DeliveredStays ==
    ASSUME case' = case, bundle' = bundle
    PROVE  (Delivered => Delivered') /\ (LaidOut(N) => LaidOut(N)')
<1>1. /\ RootA' = RootA /\ RootB' = RootB /\ Root' = Root /\ TagsMade' = TagsMade /\ N' = N
      /\ Channels' = Channels /\ Mark' = Mark /\ Place' = Place /\ Inputs' = Inputs
  BY CaseKept
<1> QED BY <1>1 DEF Delivered, LaidOut

(* A refusal promises nothing. *)
LEMMA RefusalKeeps ==
    ASSUME Shaped, NEW verdict, verdict # "accepted", Answer(verdict)
    PROVE  IInv'
<1>1. /\ case' = case /\ at' = at /\ layouts' = layouts /\ bundle' = bundle
      /\ phase' = "answered" /\ outcome' # "accepted"
  BY DEF Answer
<1>2. Shaped'
  BY <1>1 DEF Shaped
<1>3. Bound'
  BY <1>1 DEF Bound, AcceptedIsIntended, AcceptedIsOnePoint, AcceptedIsPublished,
              AcceptedMacIsOverSigned
<1> QED BY <1>1, <1>2, <1>3 DEF IInv, InAnswered

LEMMA SetupKeeps ==
    ASSUME Shaped, InSetup, Setup
    PROVE  IInv'
<1>1. CASE SetupVerdict # "ok"
  <2>1. Answer(SetupVerdict)
    BY <1>1 DEF Setup
  <2>2. SetupVerdict # "accepted"
    BY DEF SetupVerdict
  <2> QED BY <2>1, <2>2, RefusalKeeps
<1>2. CASE SetupVerdict = "ok"
  <2>1. /\ case' = case /\ at' = at /\ layouts' = layouts /\ bundle' = bundle /\ claims' = claims
        /\ cursor' = cursor /\ outcome' = outcome /\ phase' = "shapes"
        /\ seen' = [signers |-> [i \in DOMAIN Expected.projections |-> NothingSeen],
                    z |-> <<>>, qx |-> <<>>, qy |-> <<>>, mac |-> <<>>]
    BY <1>2 DEF Setup
  <2>2. Expected' = Expected /\ VerifierInsts' = VerifierInsts /\ Insts' = Insts
    BY <2>1, CaseKept
  <2>3. SeenShaped'
    BY <2>1, <2>2 DEF SeenShaped, SeenFields, NothingSeen, Kept
  <2>4. SetupVerdict' = "ok"
    BY <1>2, <2>1, <2>2 DEF SetupVerdict
  <2>5. LaidOut(N)' /\ Delivered'
    BY <2>1, DeliveredStays DEF InSetup
  <2>6. at' = 1 /\ at' - 1 = 0
    BY <2>1 DEF InSetup
  <2>7. ExpectedLaidOut(at - 1)'
    <3>1. IsSequence(<<>>) /\ Len(<<>>) = 0
      BY Single
    <3> QED BY <2>1, <2>6, <3>1 DEF ExpectedLaidOut, InSetup, Fresh
  <2>8. at' <= Len(VerifierInsts') + 1
    <3>1. IsCall(case.verifier)
      BY CaseFacts DEF Shaped
    <3>2. VerifierInsts = ProverInstances(case.verifier)
      BY <3>1, SameWalk DEF VerifierInsts, Expected
    <3>3. IsSequence(ProverInstances(case.verifier))
      BY <3>1, ProverWalk
    <3>4. Len(VerifierInsts) \in Nat
      BY <3>2, <3>3 DEF IsSequence
    <3> QED BY <2>2, <2>6, <3>4
  <2>9. Shaped'
    BY <2>1 DEF Shaped, InSetup
  <2>10. claims' = <<>> /\ cursor' = 0
    BY <2>1 DEF InSetup, Fresh
  <2>11. InShapes'
    BY <2>1, <2>3, <2>4, <2>5, <2>7, <2>8, <2>10 DEF InShapes
  <2> QED BY <2>9, <2>11 DEF IInv
<1> QED BY <1>1, <1>2

LEMMA LayOutExpectedKeeps ==
    ASSUME Shaped, InShapes, LayOutExpected
    PROVE  IInv'
<1> DEFINE lv == layouts.verifier
           label == VerifierInsts[at].label
           next == Layout(CommittedLen(lv), InputLen(label), PadLen[label])
<1>1. /\ case \in Cases /\ at \in Nat \ {0} /\ outcome = "none"
      /\ DOMAIN layouts = {"prover", "verifier"}
  BY DEF Shaped, InShapes
<1>2. /\ case' = case /\ phase' = phase /\ bundle' = bundle /\ claims' = claims
      /\ cursor' = cursor /\ seen' = seen /\ outcome' = outcome
      /\ at' = at + 1 /\ at <= Len(VerifierInsts)
      /\ DOMAIN layouts' = {"prover", "verifier"} /\ layouts'.verifier = Append(lv, next)
  BY <1>1 DEF LayOutExpected
<1>3. Expected' = Expected /\ VerifierInsts' = VerifierInsts /\ Insts' = Insts /\ LayoutAt' = LayoutAt
  BY <1>2, CaseKept
<1>4. IsSequence(lv) /\ Len(lv) = at - 1
  BY DEF InShapes, ExpectedLaidOut
<1>5. ASSUME VerifierInsts = Insts
      PROVE  next = LayoutAt[at]
  <2>1. N \in Nat
    BY <1>1, CaseFacts
  <2>2. at \in 1 .. N
    BY <1>1, <1>2, <1>5, <2>1 DEF N
  <2>3. LayoutAt[at] = Layout(Place[at], InputLen(label), PadLen[label])
    BY <1>5, <2>2 DEF LayoutAt
  <2>4. CommittedLen(lv) = Place[at]
    <3>1. CASE at = 1
      <4>1. lv = <<>>
        <5>1. IsSequence(<<>>) /\ Len(<<>>) = 0
          BY Single
        <5>2. Len(lv) = 0
          BY <1>4, <3>1
        <5> QED BY <1>4, <5>1, <5>2, SameSequence
      <4> QED BY <1>1, <3>1, <4>1, PlaceSteps DEF CommittedLen
    <3>2. CASE at # 1
      <4>1. at - 1 \in 1 .. N /\ (at - 1) + 1 = at
        BY <1>1, <2>1, <2>2, <3>2
      <4>2. lv # <<>>
        <5>1. Len(<<>>) = 0
          BY Single
        <5> QED BY <1>4, <4>1, <5>1
      <4>3. Last(lv) = LayoutAt[at - 1]
        BY <1>4, <1>5, <4>1 DEF Last, InShapes, ExpectedLaidOut
      <4>4. LayoutAt[at - 1] =
               Layout(Place[at - 1], InputLen(Insts[at - 1].label), PadLen[Insts[at - 1].label])
        BY <4>1 DEF LayoutAt
      <4>5. Last(lv).pad + Last(lv).padLen =
               (Place[at - 1] + InputLen(Insts[at - 1].label)) + PadLen[Insts[at - 1].label]
        BY <4>3, <4>4 DEF Layout
      <4>6. /\ InputLen(Insts[at - 1].label) = Len(Inputs[at - 1])
            /\ Place[(at - 1) + 1] =
                  Place[at - 1] + Len(Inputs[at - 1]) + PadLen[Insts[at - 1].label]
        BY <1>1, <4>1, PlaceSteps
      <4> QED BY <4>1, <4>2, <4>5, <4>6 DEF CommittedLen
    <3> QED BY <3>1, <3>2
  <2> QED BY <2>3, <2>4
<1> HIDE DEF next
<1>6. /\ IsSequence(Append(lv, next)) /\ Len(Append(lv, next)) = Len(lv) + 1
      /\ \A i \in 1 .. Len(lv) : Append(lv, next)[i] = lv[i]
      /\ Append(lv, next)[Len(lv) + 1] = next
  <2>1. IsSequence(lv)
    BY <1>4
  <2> HIDE DEF lv
  <2> QED BY <2>1, Appended
<1>7. ExpectedLaidOut(at - 1)'
  <2> DEFINE l == Append(lv, next)
  <2> HIDE DEF l
  <2>1. Len(l) = at' - 1 /\ IsSequence(l)
    BY <1>1, <1>2, <1>4, <1>6 DEF l
  <2>2. ASSUME VerifierInsts = Insts, NEW j \in 1 .. at
        PROVE  l[j] = LayoutAt[j]
    <3>1. CASE j = at
      <4>1. l[at] = next
        <5>1. Len(lv) + 1 = at
          BY <1>1, <1>4
        <5> QED BY <1>6, <5>1 DEF l
      <4> QED BY <1>5, <2>2, <3>1, <4>1
    <3>2. CASE j # at
      <4>1. j \in 1 .. at - 1
        BY <1>1, <3>2
      <4>2. lv[j] = LayoutAt[j]
        BY <2>2, <4>1 DEF InShapes, ExpectedLaidOut
      <4> QED BY <1>4, <1>6, <4>1, <4>2 DEF l
    <3> QED BY <3>1, <3>2
  <2>3. at' - 1 = at
    BY <1>1, <1>2
  <2> QED BY <1>2, <1>3, <2>1, <2>2, <2>3 DEF ExpectedLaidOut, l
<1>8. SeenShaped'
  BY <1>2, <1>3 DEF InShapes, SeenShaped
<1>9. SetupVerdict' = "ok"
  BY <1>2, <1>3 DEF InShapes, SetupVerdict
<1>10. LaidOut(N)' /\ Delivered'
  BY <1>2, DeliveredStays DEF InShapes
<1>11. at' \in Nat \ {0} /\ at' <= Len(VerifierInsts') + 1
  <2>1. Len(VerifierInsts) \in Nat
    <3>1. IsCall(case.verifier)
      BY <1>1, CaseFacts
    <3>2. VerifierInsts = ProverInstances(case.verifier)
      BY <3>1, SameWalk DEF VerifierInsts, Expected
    <3>3. IsSequence(ProverInstances(case.verifier))
      BY <3>1, ProverWalk
    <3> QED BY <3>2, <3>3 DEF IsSequence
  <2> QED BY <1>1, <1>2, <1>3, <2>1
<1>12. Shaped'
  BY <1>1, <1>2, <1>11 DEF Shaped
<1>13. InShapes'
  BY <1>2, <1>7, <1>8, <1>9, <1>10, <1>11 DEF InShapes
<1> QED BY <1>12, <1>13 DEF IInv

(* What the counts and the openings admit was made by the same walk under the
   same roots. *)
LEMMA OpeningsAgree ==
    ASSUME Shaped, InShapes, OpeningsHold
    PROVE  Agreed
<1>1. /\ case \in Cases /\ IsCall(case.prover) /\ IsCall(case.verifier)
      /\ case.fault \in MdocFaults => IsMdoc
      /\ Delivered /\ SetupVerdict = "ok"
  BY CaseFacts DEF Shaped, InShapes
<1>2. case.prover.mode \in {"batch", "mdoc"} /\ Expected.mode \in {"batch", "mdoc"}
  BY <1>1 DEF IsCall, Expected
<1>3. Root = VerifierRoot /\ Expected.seed = case.prover.seed
  <2>1. PICK rows : bundle.proximity = ProximityGamma(VerifierRoot, rows, Expected.seed)
    BY DEF OpeningsHold
  <2>2. bundle.proximity = ProximityGamma(Root, bundle.proximity[3], case.prover.seed)
    BY <1>1 DEF Delivered
  <2> QED BY <2>1, <2>2 DEF ProximityGamma
<1>4. Expected.mode = case.prover.mode
  <2>1. bundle.rootA = RootA
    BY <1>1 DEF Delivered
  <2>2. CASE Expected.mode = "mdoc" /\ case.prover.mode = "batch"
    <3>1. VerifierRoot = FullRoot(RootA, bundle.rootB) /\ Root = RootA
      BY <2>1, <2>2 DEF VerifierRoot, RootOf, Root, IsMdoc
    <3>2. VerifierRoot[1] = "two-root" /\ Root[1] = "A"
      BY <3>1 DEF FullRoot, RootA
    <3> QED BY <1>3, <3>2
  <2>3. CASE Expected.mode = "batch" /\ case.prover.mode = "mdoc"
    <3>1. VerifierRoot = RootA /\ Root = FullRoot(RootA, RootB)
      BY <2>1, <2>3 DEF VerifierRoot, RootOf, Root, IsMdoc
    <3>2. VerifierRoot[1] = "A" /\ Root[1] = "two-root"
      BY <3>1 DEF FullRoot, RootA
    <3> QED BY <1>3, <3>2
  <2> QED BY <1>2, <2>2, <2>3
<1>5. IsMdoc => Expected.mode = "mdoc"
  BY <1>4 DEF IsMdoc
<1>6. case.fault # "params"
  BY <1>1 DEF Delivered, OpeningsHold
<1>7. case.fault # "no root b"
  <2>1. ASSUME case.fault = "no root b"
        PROVE  FALSE
    <3>1. Expected.mode = "mdoc"
      BY <1>1, <1>5, <2>1 DEF MdocFaults
    <3>2. bundle.rootB = <<>>
      BY <1>1, <2>1 DEF Delivered
    <3> QED BY <1>1, <3>1, <3>2 DEF SetupVerdict
  <2> QED BY <2>1
<1>8. case.fault # "tag lost"
  <2>1. ASSUME case.fault = "tag lost"
        PROVE  FALSE
    <3>1. Expected.mode = "mdoc"
      BY <1>1, <1>5, <2>1 DEF MdocFaults
    <3>2. Len(bundle.tags) # MacHalfCount
      BY <1>1, <2>1 DEF Delivered
    <3> QED BY <1>1, <3>1, <3>2 DEF SetupVerdict
  <2> QED BY <2>1
<1> DEFINE drawn == ProximityIndices(VerifierRoot, Expected.seed)
<1>9. drawn # <<>>
  <2>1. drawn = <<"indices", VerifierRoot, Expected.seed>>
    BY DEF ProximityIndices
  <2> QED BY <2>1
<1> HIDE DEF drawn
<1>10. case.fault # "indices"
  <2>1. bundle.openingsA.indices = drawn
    BY DEF OpeningsHold, drawn
  <2> QED BY <1>1, <1>9, <2>1 DEF Delivered
<1>11. case.fault # "indices b"
  <2>1. ASSUME case.fault = "indices b"
        PROVE  FALSE
    <3>1. Expected.mode = "mdoc"
      BY <1>1, <1>5, <2>1 DEF MdocFaults
    <3>2. bundle.openingsB.indices = drawn
      BY <3>1 DEF OpeningsHold, drawn
    <3> QED BY <1>1, <1>9, <2>1, <3>2 DEF Delivered
  <2> QED BY <2>1
<1>12. VerifierInsts = ProverInstances(case.verifier)
  BY <1>1, SameWalk DEF VerifierInsts, Expected
<1> DEFINE n == Len(case.prover.projections)
           v == Len(Expected.projections)
           m == IF case.prover.mode = "mdoc" THEN 1 ELSE 0
<1>13. n \in Nat /\ Len(Insts) = 6 * n + m
  BY <1>1, ProverWalk DEF Insts
<1>14. v \in Nat /\ Len(VerifierInsts) = 6 * v + m
  BY <1>1, <1>4, <1>12, ProverWalk DEF Expected
<1>15. m \in {0, 1}
  OBVIOUS
<1>16. /\ Len(bundle.entries) = Len(VerifierInsts)
       /\ Len(bundle.entries) = IF case.fault = "entry lost" THEN Len(Insts) - 1 ELSE Len(Insts)
  BY <1>1 DEF SetupVerdict, Delivered, N
<1> HIDE DEF n, v, m
<1>17. case.fault # "entry lost" /\ n = v
  <2>1. case.fault = "entry lost" => 6 * v + m = (6 * n + m) - 1
    BY <1>13, <1>14, <1>16
  <2>2. case.fault # "entry lost" => 6 * v + m = 6 * n + m
    BY <1>13, <1>14, <1>16
  <2>3. 6 * v + m # (6 * n + m) - 1
    BY <1>13, <1>14, <1>15
  <2>4. 6 * v + m = 6 * n + m => n = v
    BY <1>13, <1>14, <1>15
  <2> QED BY <2>1, <2>2, <2>3, <2>4
<1>18. VerifierInsts = Insts
  <2>1. Len(case.verifier.projections) = Len(case.prover.projections)
    BY <1>17 DEF n, v, Expected
  <2>2. case.verifier.mode = case.prover.mode
    BY <1>4 DEF Expected
  <2> QED BY <1>12, <2>1, <2>2 DEF ProverInstances, Insts
<1> QED
  BY <1>3, <1>4, <1>6, <1>7, <1>8, <1>10, <1>11, <1>17, <1>18 DEF Agreed, MdocFaults, n, v

LEMMA AgreedStays ==
    ASSUME case' = case, bundle' = bundle
    PROVE  Agreed => Agreed'
<1>1. Expected' = Expected /\ VerifierInsts' = VerifierInsts /\ Insts' = Insts /\ Root' = Root
  BY CaseKept
<1>2. VerifierRoot' = VerifierRoot
  BY <1>1 DEF VerifierRoot, RootOf
<1> QED BY <1>1, <1>2 DEF Agreed

LEMMA CheckOpeningsKeeps ==
    ASSUME Shaped, InShapes, CheckOpenings
    PROVE  IInv'
<1>1. CASE ~OpeningsHold
  <2>1. Answer("ProximityOpeningRejected")
    BY <1>1 DEF CheckOpenings
  <2> QED BY <2>1, RefusalKeeps
<1>2. CASE OpeningsHold
  <2>1. /\ case' = case /\ at' = 1 /\ layouts' = layouts /\ bundle' = bundle /\ claims' = claims
        /\ cursor' = cursor /\ seen' = seen /\ outcome' = outcome /\ phase' = "instances"
        /\ at > Len(VerifierInsts)
    BY <1>2 DEF CheckOpenings
  <2>2. /\ case \in Cases /\ at \in Nat \ {0} /\ at <= Len(VerifierInsts) + 1
        /\ claims = <<>> /\ cursor = 0
    BY DEF Shaped, InShapes
  <2>3. /\ N' = N /\ Mark' = Mark /\ LayoutAt' = LayoutAt /\ Expected' = Expected
        /\ N \in Nat /\ Mark[1] = 0
    BY <2>1, <2>2, CaseKept, CaseFacts, MarkSteps
  <2>4. Agreed
    BY <1>2, OpeningsAgree
  <2>5. at - 1 = N
    <3>1. Len(VerifierInsts) = N
      BY <2>4 DEF Agreed, N
    <3> QED BY <2>1, <2>2, <2>3, <3>1
  <2>6. \A j \in 1 .. N' : layouts'.verifier[j] = LayoutAt'[j]
    BY <2>1, <2>3, <2>4, <2>5 DEF Agreed, InShapes, ExpectedLaidOut
  <2>7. LaidOut(N)' /\ Delivered' /\ Agreed'
    BY <2>1, <2>4, DeliveredStays, AgreedStays DEF InShapes
  <2>8. SeenShaped'
    BY <2>1, <2>3 DEF InShapes, SeenShaped
  <2>9. IsSequence(claims') /\ cursor' = Mark'[at'] /\ at' <= N' + 1 /\ at' - 1 = 0
    <3>1. IsSequence(claims')
      BY <2>1, <2>2, Single
    <3>2. cursor' = Mark'[at']
      BY <2>1, <2>2, <2>3
    <3>3. at' <= N' + 1 /\ at' - 1 = 0
      BY <2>1, <2>3
    <3> QED BY <3>1, <3>2, <3>3
  <2>10. \A j \in 1 .. at' - 1 : FALSE
    BY <2>9
  <2>11. Shaped'
    BY <2>1 DEF Shaped, InShapes
  <2>12. InInstances'
    BY <2>1, <2>6, <2>7, <2>8, <2>9, <2>10 DEF InInstances
  <2> QED BY <2>11, <2>12 DEF IInv
<1> QED BY <1>1, <1>2

-----------------------------------------------------------------------------
(* The verifier's walk.                                                    *)

LEMMA WithinJoined ==
    ASSUME NEW s, NEW t, IsSequence(s), IsSequence(t), NEW x
    PROVE  /\ Within(x, s) => Within(x, s \o t)
           /\ Within(x, t) => Within(x, s \o t)
<1> DEFINE u == s \o t
<1>1. /\ Len(u) = Len(s) + Len(t)
      /\ \A i \in 1 .. Len(s) : u[i] = s[i]
      /\ \A i \in 1 .. Len(t) : u[Len(s) + i] = t[i]
  BY Joined
<1> HIDE DEF u
<1>2. Len(s) \in Nat /\ Len(t) \in Nat
  BY DEF IsSequence
<1>3. ASSUME Within(x, s)
      PROVE  Within(x, u)
  <2>1. PICK k \in 1 .. Len(s) : s[k] = x
    BY <1>3 DEF Within
  <2>2. k \in 1 .. Len(u)
    BY <1>1, <1>2
  <2> QED BY <1>1, <2>1, <2>2 DEF Within
<1>4. ASSUME Within(x, t)
      PROVE  Within(x, u)
  <2>1. PICK k \in 1 .. Len(t) : t[k] = x
    BY <1>4 DEF Within
  <2>2. Len(s) + k \in 1 .. Len(u)
    BY <1>1, <1>2
  <2> QED BY <1>1, <2>1, <2>2 DEF Within
<1> QED BY <1>3, <1>4 DEF u

LEMMA ThreeJoined ==
    ASSUME NEW a, NEW b, NEW c, IsSequence(a), IsSequence(b), IsSequence(c)
    PROVE  /\ IsSequence(a \o b \o c)
           /\ \A x : Within(x, a) \/ Within(x, b) \/ Within(x, c) => Within(x, a \o b \o c)
<1>1. IsSequence(a \o b) /\ \A x : Within(x, a) \/ Within(x, b) => Within(x, a \o b)
  BY Joined, WithinJoined
<1> DEFINE ab == a \o b
<1> HIDE DEF ab
<1>2. IsSequence(ab)
  BY <1>1 DEF ab
<1>3. IsSequence(ab \o c) /\ \A x : Within(x, ab) \/ Within(x, c) => Within(x, ab \o c)
  BY <1>2, Joined, WithinJoined
<1> QED BY <1>1, <1>3 DEF ab

LEMMA FourJoined ==
    ASSUME NEW a, NEW b, NEW c, NEW d,
           IsSequence(a), IsSequence(b), IsSequence(c), IsSequence(d)
    PROVE  /\ IsSequence(a \o b \o c \o d)
           /\ \A x : Within(x, a) \/ Within(x, b) \/ Within(x, c) \/ Within(x, d)
                        => Within(x, a \o b \o c \o d)
<1> DEFINE abc == a \o b \o c
<1>1. /\ IsSequence(abc)
      /\ \A x : Within(x, a) \/ Within(x, b) \/ Within(x, c) => Within(x, abc)
  BY ThreeJoined
<1> HIDE DEF abc
<1>2. IsSequence(abc \o d) /\ \A x : Within(x, abc) \/ Within(x, d) => Within(x, abc \o d)
  BY <1>1, Joined, WithinJoined
<1> QED BY <1>1, <1>2 DEF abc

(* A published field's claim is among those made. *)
LEMMA PublicClaimsMade ==
    ASSUME NEW inst, inst.label \in Labels, inst.label # "mac", NEW projection, NEW layout
    PROVE  /\ IsSequence(PublicClaims(inst, projection, layout))
           /\ \A name \in PublicNames(inst.label) : projection[name] # None =>
                 Within(FixedClaim(layout, Position(inst.label, name),
                                   Value(inst.signer, name, projection[name])),
                        PublicClaims(inst, projection, layout))
<1> DEFINE c(name) == PublicClaim(inst, projection, layout, name)
           v(name) == FixedClaim(layout, Position(inst.label, name),
                                 Value(inst.signer, name, projection[name]))
           p == PublicClaims(inst, projection, layout)
<1>1. \A name : c(name) = IF name \in PublicNames(inst.label) /\ projection[name] # None
                          THEN <<v(name)>> ELSE <<>>
  BY DEF PublicClaim
<1>2. p = c("z") \o c("r") \o c("s") \o c("qx") \o c("qy")
  BY DEF PublicClaims
<1> HIDE DEF c, v, p
<1>3. \A name : IsSequence(c(name))
  BY <1>1, Single
<1>4. ASSUME NEW name \in PublicNames(inst.label), projection[name] # None
      PROVE  Within(v(name), c(name))
  <2>1. c(name) = <<v(name)>>
    BY <1>1, <1>4
  <2>2. Len(<<v(name)>>) = 1 /\ <<v(name)>>[1] = v(name)
    BY Single
  <2> QED BY <2>1, <2>2 DEF Within
<1> DEFINE first == c("z") \o c("r") \o c("s")
<1>5. /\ IsSequence(first)
      /\ \A x : Within(x, c("z")) \/ Within(x, c("r")) \/ Within(x, c("s")) => Within(x, first)
  BY <1>3, ThreeJoined
<1> HIDE DEF first
<1>6. /\ IsSequence(first \o c("qx") \o c("qy"))
      /\ \A x : Within(x, first) \/ Within(x, c("qx")) \/ Within(x, c("qy"))
                    => Within(x, first \o c("qx") \o c("qy"))
  BY <1>3, <1>5, ThreeJoined
<1>7. p = first \o c("qx") \o c("qy")
  BY <1>2 DEF first
<1>8. ASSUME NEW name \in PublicNames(inst.label), projection[name] # None
      PROVE  Within(v(name), p)
  <2>1. name = "z" \/ name = "r" \/ name = "s" \/ name = "qx" \/ name = "qy"
    BY DEF PublicNames, Labels
  <2>2. Within(v(name), c(name))
    BY <1>4, <1>8
  <2> QED BY <1>5, <1>6, <1>7, <2>1, <2>2
<1> QED BY <1>6, <1>7, <1>8 DEF p, v

LEMMA PrivateClaimsMade ==
    ASSUME NEW names, NEW inst, NEW layout, NEW values, Len(names) \in Nat,
           DOMAIN names = 1 .. Len(names)
    PROVE  /\ IsSequence(PrivateClaims(names, inst, layout, values))
           /\ \A i \in 1 .. Len(names) :
                 Within(FixedClaim(layout, Position(inst.label, names[i]), values[i]),
                        PrivateClaims(names, inst, layout, values))
<1> DEFINE p == PrivateClaims(names, inst, layout, values)
           c(i) == FixedClaim(layout, Position(inst.label, names[i]), values[i])
<1>1. p = [i \in 1 .. Len(names) |-> c(i)]
  BY DEF PrivateClaims
<1> HIDE DEF p, c
<1>2. p = [i \in 1 .. Len(names) |-> p[i]]
  BY <1>1
<1>3. IsSequence(p) /\ Len(p) = Len(names)
  BY <1>2, Tabulated
<1>4. \A i \in 1 .. Len(names) : Within(c(i), p)
  BY <1>1, <1>3 DEF Within
<1> QED BY <1>3, <1>4 DEF p, c

LEMMA MacClaimsMade ==
    ASSUME NEW layout, NEW values
    PROVE  /\ IsSequence(MacClaims(layout, values))
           /\ \A h \in 1 .. MacHalfCount :
                 Within(FixedClaim(layout, 3 * h - 1, values[h]), MacClaims(layout, values))
<1> DEFINE m == MacClaims(layout, values)
<1>1. m = [i \in 1 .. 12 |->
            IF i % 2 = 1 THEN FixedClaim(layout, 3 * ((i + 1) \div 2) - 2, <<"one">>)
            ELSE FixedClaim(layout, 3 * ((i + 1) \div 2) - 1, values[(i + 1) \div 2])]
  BY DEF MacClaims, MacHalfCount
<1> HIDE DEF m
<1>2. m = [i \in 1 .. 12 |-> m[i]]
  BY <1>1
<1>3. IsSequence(m) /\ Len(m) = 12
  BY <1>2, Tabulated
<1>4. ASSUME NEW h \in 1 .. 6
      PROVE  Within(FixedClaim(layout, 3 * h - 1, values[h]), m)
  <2>1. 2 * h \in 1 .. 12 /\ (2 * h) % 2 = 0 /\ (2 * h + 1) \div 2 = h
    OBVIOUS
  <2>2. m[2 * h] = FixedClaim(layout, 3 * ((2 * h + 1) \div 2) - 1, values[(2 * h + 1) \div 2])
    BY <1>1, <2>1
  <2>3. m[2 * h] = FixedClaim(layout, 3 * h - 1, values[h])
    BY <2>1, <2>2
  <2> QED BY <1>3, <2>1, <2>3 DEF Within
<1> QED BY <1>3, <1>4 DEF m, MacHalfCount

LEMMA OtherClaims ==
    ASSUME NEW layout, NEW proof, NEW root, NEW seed, NEW lenA, NEW values
    PROVE  /\ IsSequence(InputClaims(layout, proof))
           /\ IsSequence(PadClaims(layout, proof, root, seed))
           /\ IsSequence(SplitClaims(layout, lenA, proof, values))
<1>1. IsSequence(InputClaims(layout, proof))
  <2> DEFINE u == InputClaims(layout, proof)
  <2>1. u = [i \in 1 .. 2 |-> u[i]]
    BY DEF InputClaims
  <2> HIDE DEF u
  <2>2. IsSequence(u)
    BY <2>1, Tabulated
  <2> QED BY <2>2 DEF u
<1>2. IsSequence(PadClaims(layout, proof, root, seed))
  BY Single DEF PadClaims
<1>3. IsSequence(SplitClaims(layout, lenA, proof, values))
  BY Tuple4 DEF SplitClaims
<1> QED BY <1>1, <1>2, <1>3

LEMMA AtAnInstance ==
    ASSUME Shaped, InInstances, at <= Len(VerifierInsts)
    PROVE  /\ case \in Cases /\ N \in Nat /\ at \in 1 .. N
           /\ VerifierInsts[at] = Insts[at] /\ layouts.verifier[at] = LayoutAt[at]
           /\ Expected.mode = case.prover.mode /\ VerifierRoot = Root
           /\ DrawAv(Expected.seed, bundle.rootA) = Av /\ bundle.tags = TagsMade
           /\ TakenCount(Insts[at]) = SentCounts[at] /\ Taken(Insts[at]) = TakenAt(at)
           /\ Mark[at] \in Nat /\ SentCounts[at] \in Nat
<1>1. case \in Cases /\ at \in Nat \ {0} /\ Agreed /\ Delivered /\ cursor = Mark[at]
  BY DEF Shaped, InInstances
<1>2. N \in Nat /\ VerifierInsts = Insts
  BY <1>1, CaseFacts DEF Agreed
<1>3. at \in 1 .. N
  BY <1>1, <1>2 DEF N
<1>4. Expected.mode = case.prover.mode /\ VerifierRoot = Root
  BY <1>1 DEF Agreed
<1>5. DrawAv(Expected.seed, bundle.rootA) = Av
  BY <1>1 DEF Agreed, Delivered, Av
<1>6. bundle.tags = TagsMade
  BY <1>1 DEF Agreed, Delivered, MdocFaults
<1>7. TakenCount(Insts[at]) = SentCounts[at]
  <2>1. Insts[at].label \in Labels
    BY <1>1, <1>3, InstanceFacts
  <2>2. CASE Insts[at].label = "mac"
    BY <1>3, <2>2 DEF TakenCount, SentCounts
  <2>3. CASE Insts[at].label # "mac"
    <3>1. TakenNames(Insts[at]) = PrivateNames(Expected.mode, Insts[at])
      BY <2>1, <2>3, TakenIsPrivate
    <3> QED BY <1>3, <1>4, <2>3, <3>1 DEF TakenCount, SentCounts
  <2> QED BY <2>2, <2>3
<1>8. Taken(Insts[at]) = TakenAt(at)
  BY <1>1, <1>7 DEF Taken, TakenAt
<1>9. layouts.verifier[at] = LayoutAt[at]
  BY <1>3 DEF InInstances
<1>10. Mark[at] \in Nat /\ SentCounts[at] \in Nat
  <2>1. at \in 1 .. N + 1
    BY <1>2, <1>3
  <2> QED BY <1>1, <1>3, <2>1, MarkSteps
<1> QED BY <1>1, <1>2, <1>3, <1>4, <1>5, <1>6, <1>7, <1>8, <1>9, <1>10

(* The claims made of the instance that is walked. *)
LEMMA ClaimsMade ==
    ASSUME Shaped, InInstances, at <= Len(VerifierInsts), NEW q, NEW entry,
           q = VerifierClaimsOf(Insts[at], LayoutAt[at], entry, TakenAt(at))
    PROVE  /\ IsSequence(q)
           /\ Insts[at].label # "mac" =>
                /\ \A name \in PublicNames(Insts[at].label) :
                      Expected.projections[Insts[at].signer + 1][name] # None =>
                         Within(FixedClaim(LayoutAt[at], Position(Insts[at].label, name),
                                   Value(Insts[at].signer, name,
                                         Expected.projections[Insts[at].signer + 1][name])), q)
                /\ \A i \in 1 .. SentCounts[at] :
                      Within(FixedClaim(LayoutAt[at],
                                Position(Insts[at].label,
                                         PrivateNames(case.prover.mode, Insts[at])[i]),
                                TakenAt(at)[i]), q)
           /\ Insts[at].label = "mac" => \A h \in 1 .. MacHalfCount :
                Within(FixedClaim(LayoutAt[at], 3 * h - 1, TakenAt(at)[4 + h]), q)
<1> DEFINE inst == Insts[at]
           lay == LayoutAt[at]
           taken == TakenAt(at)
           pads == PadClaims(lay, entry, VerifierRoot, Expected.seed)
<1>1. /\ case \in Cases /\ at \in 1 .. N /\ Expected.mode = case.prover.mode
      /\ Mark[at] \in Nat /\ SentCounts[at] \in Nat
  BY AtAnInstance
<1>2. inst.label \in Labels
  BY <1>1, InstanceFacts
<1>3. /\ IsSequence(taken) /\ Len(taken) = SentCounts[at]
      /\ \A i \in 1 .. SentCounts[at] : taken[i] = bundle.values[Mark[at] + i]
  <2> DEFINE x == Mark[at]
             k == SentCounts[at]
  <2>1. x \in Nat /\ k \in Nat
    BY <1>1
  <2> HIDE DEF x, k
  <2>2. x + 1 \in Int /\ x + k \in Int /\ x + 1 <= (x + k) + 1 /\ ((x + k) - (x + 1)) + 1 = k
    BY <2>1
  <2> DEFINE lo == x + 1
             hi == x + k
             v == bundle.values
  <2>3. taken = SubSeq(v, lo, hi)
    BY DEF TakenAt, x, k
  <2>4. lo \in Int /\ hi \in Int /\ lo <= hi + 1 /\ (hi - lo) + 1 = k
    BY <2>2
  <2>5. \A i \in 1 .. k : (lo + i) - 1 = x + i
    BY <2>1
  <2> HIDE DEF lo, hi, v, taken
  <2>6. /\ IsSequence(SubSeq(v, lo, hi)) /\ Len(SubSeq(v, lo, hi)) = (hi - lo) + 1
        /\ \A i \in 1 .. (hi - lo) + 1 : SubSeq(v, lo, hi)[i] = v[(lo + i) - 1]
    BY <2>4, Cut
  <2>7. /\ IsSequence(taken) /\ Len(taken) = k
        /\ \A i \in 1 .. k : taken[i] = v[x + i]
    BY <2>3, <2>4, <2>5, <2>6
  <2> QED BY <2>7 DEF x, k, v, taken
<1>4. CASE inst.label = "mac"
  <2> DEFINE split == SplitClaims(lay, CommittedLen(layouts.verifier), entry, taken)
             vs == SubSeq(taken, 5, Len(taken))
             macs == MacClaims(lay, vs)
  <2>1. q = split \o pads \o macs
    BY <1>4 DEF VerifierClaimsOf
  <2>2. IsSequence(split) /\ IsSequence(pads)
    BY OtherClaims
  <2>3. /\ IsSequence(macs)
        /\ \A h \in 1 .. MacHalfCount : Within(FixedClaim(lay, 3 * h - 1, vs[h]), macs)
    BY MacClaimsMade
  <2>4. \A h \in 1 .. MacHalfCount : vs[h] = taken[4 + h]
    <3>1. Len(taken) = 10
      BY <1>1, <1>3, <1>4 DEF SentCounts, MacHalfCount
    <3>2. \A i \in 1 .. (10 - 5) + 1 : SubSeq(taken, 5, 10)[i] = taken[(5 + i) - 1]
      BY Cut
    <3>3. \A h \in 1 .. 6 : h \in 1 .. (10 - 5) + 1 /\ (5 + h) - 1 = 4 + h
      OBVIOUS
    <3> QED BY <3>1, <3>2, <3>3 DEF MacHalfCount
  <2> HIDE DEF split, vs, macs, pads, taken, lay
  <2>5. IsSequence(split \o pads \o macs) /\ \A x : Within(x, macs) => Within(x, split \o pads \o macs)
    BY <2>2, <2>3, ThreeJoined
  <2>6. IsSequence(q) /\ \A x : Within(x, macs) => Within(x, q)
    BY <2>1, <2>5
  <2>7. \A h \in 1 .. MacHalfCount : Within(FixedClaim(lay, 3 * h - 1, taken[4 + h]), q)
    BY <2>3, <2>4, <2>6
  <2> QED BY <1>4, <2>6, <2>7 DEF lay, taken
<1>5. CASE inst.label # "mac"
  <2> DEFINE proj == Expected.projections[inst.signer + 1]
             names == PrivateNames(case.prover.mode, inst)
             ins == InputClaims(lay, entry)
             pub == PublicClaims(inst, proj, lay)
             priv == PrivateClaims(names, inst, lay, taken)
  <2>1. TakenNames(inst) = names
    BY <1>1, <1>2, <1>5, TakenIsPrivate
  <2>2. q = ins \o pads \o pub \o priv
    BY <1>5, <2>1 DEF VerifierClaimsOf
  <2>3. IsSequence(ins) /\ IsSequence(pads)
    BY OtherClaims
  <2>4. /\ IsSequence(pub)
        /\ \A name \in PublicNames(inst.label) : proj[name] # None =>
              Within(FixedClaim(lay, Position(inst.label, name),
                                Value(inst.signer, name, proj[name])), pub)
    BY <1>2, <1>5, PublicClaimsMade
  <2>5. Len(names) \in Nat /\ DOMAIN names = 1 .. Len(names) /\ Len(names) = SentCounts[at]
    <3>1. Len(names) \in 0 .. 6 /\ DOMAIN names = 1 .. Len(names)
      BY <1>2, <1>5, PrivateNamesOf
    <3> QED BY <1>1, <1>5, <3>1 DEF SentCounts
  <2>6. /\ IsSequence(priv)
        /\ \A i \in 1 .. Len(names) :
              Within(FixedClaim(lay, Position(inst.label, names[i]), taken[i]), priv)
    <3>1. Len(names) \in Nat /\ DOMAIN names = 1 .. Len(names)
      BY <2>5
    <3> HIDE DEF names, taken, lay, inst
    <3> QED BY <3>1, PrivateClaimsMade
  <2> HIDE DEF ins, pads, pub, priv, taken, lay, proj, names
  <2>7. /\ IsSequence(ins \o pads \o pub \o priv)
        /\ \A x : Within(x, pub) \/ Within(x, priv) => Within(x, ins \o pads \o pub \o priv)
    BY <2>3, <2>4, <2>6, FourJoined
  <2>8. IsSequence(q) /\ \A x : Within(x, pub) \/ Within(x, priv) => Within(x, q)
    BY <2>2, <2>7
  <2>9. \A name \in PublicNames(inst.label) : proj[name] # None =>
              Within(FixedClaim(lay, Position(inst.label, name),
                                Value(inst.signer, name, proj[name])), q)
    BY <2>4, <2>8
  <2>10. \A i \in 1 .. SentCounts[at] :
              Within(FixedClaim(lay, Position(inst.label, names[i]), taken[i]), q)
    BY <2>5, <2>6, <2>8
  <2> QED BY <1>5, <2>8, <2>9, <2>10 DEF lay, taken, proj, names
<1> QED BY <1>4, <1>5

(* What an instance changes of what is kept. *)
LEMMA Remembered ==
    ASSUME Shaped, InInstances, at <= Len(VerifierInsts), seen' = Remember(Insts[at], TakenAt(at))
    PROVE  /\ DOMAIN seen' = SeenFields /\ DOMAIN seen'.signers = DOMAIN Expected.projections
           /\ \A s \in DOMAIN Expected.projections : DOMAIN seen'.signers[s] = Kept
           /\ seen'.mac = IF Insts[at].label = "mac"
                          THEN SubSeq(TakenAt(at), 5, Len(TakenAt(at))) ELSE seen.mac
           /\ seen'.z = IF Insts[at].label = "c3" /\ RoleNames(case.prover.mode, Insts[at]) # <<>>
                        THEN TakenAt(at)[1] ELSE seen.z
           /\ IF Insts[at].label = "c2" /\ RoleNames(case.prover.mode, Insts[at]) # <<>>
              THEN seen'.qx = TakenAt(at)[1] /\ seen'.qy = TakenAt(at)[2]
              ELSE seen'.qx = seen.qx /\ seen'.qy = seen.qy
           /\ \A s \in DOMAIN Expected.projections : \A l \in Kept :
                seen'.signers[s][l] = IF Insts[at].label = l /\ s = Insts[at].signer + 1
                                      THEN TakenAt(at) ELSE seen.signers[s][l]
<1> DEFINE inst == Insts[at]
           role == RoleNames(case.prover.mode, inst)
           D == DOMAIN Expected.projections
           taken == TakenAt(at)
           r == seen'
<1>1. /\ case \in Cases /\ at \in 1 .. N /\ Expected.mode = case.prover.mode
      /\ Len(Expected.projections) = Len(case.prover.projections)
  BY AtAnInstance DEF InInstances, Agreed
<1>2. /\ inst.label \in Labels
      /\ inst.label # "mac" => inst.signer \in 0 .. Len(case.prover.projections) - 1
  BY <1>1, InstanceFacts
<1>3. inst.label # "mac" => TakenOfRole(inst) = role
  BY <1>1, <1>2, TakenIsPrivate
<1>4. inst.label \in Kept => inst.signer + 1 \in D
  <2>1. IsCall(case.verifier)
    BY <1>1, CaseFacts
  <2>2. Expected.projections \in Seq([PublicFields -> Int])
    BY <2>1 DEF IsCall, Expected
  <2>3. D = 1 .. Len(Expected.projections) /\ Len(Expected.projections) \in Nat
    BY <2>2, LenProperties
  <2>4. inst.label \in Kept => inst.label # "mac"
    BY DEF Kept
  <2> QED BY <1>1, <1>2, <2>3, <2>4
<1>5. /\ DOMAIN seen = SeenFields /\ DOMAIN seen.signers = D
      /\ \A s \in D : DOMAIN seen.signers[s] = Kept
  BY DEF InInstances, SeenShaped
<1> HIDE DEF inst, role, D, taken, r
<1>6. r = Remember(inst, taken)
  BY DEF inst, taken, r
<1>7. CASE inst.label = "mac"
  <2>1. r = [seen EXCEPT !.mac = SubSeq(taken, 5, Len(taken))]
    BY <1>6, <1>7 DEF Remember
  <2>2. /\ DOMAIN r = SeenFields /\ r.signers = seen.signers /\ r.z = seen.z
        /\ r.qx = seen.qx /\ r.qy = seen.qy /\ r.mac = SubSeq(taken, 5, Len(taken))
    BY <1>5, <2>1 DEF SeenFields
  <2>3. "mac" \notin Kept
    BY DEF Kept
  <2> QED BY <1>5, <1>7, <2>2, <2>3 DEF inst, role, D, taken, r
<1>8. CASE inst.label \in Kept
  <2> DEFINE a == inst.signer + 1
             l == inst.label
             new == [seen.signers[a] EXCEPT ![l] = taken]
             signers == [seen.signers EXCEPT ![a] = new]
  <2>1. r = [seen EXCEPT !.signers = signers]
    BY <1>6, <1>8 DEF Remember, Kept
  <2>2. a \in D /\ l \in Kept
    BY <1>4, <1>8
  <2> HIDE DEF a, l, signers
  <2>3. /\ DOMAIN r = SeenFields /\ r.signers = signers /\ r.z = seen.z
        /\ r.qx = seen.qx /\ r.qy = seen.qy /\ r.mac = seen.mac
    BY <1>5, <2>1 DEF SeenFields
  <2>4. DOMAIN new = Kept /\ new[l] = taken /\ \A k \in Kept : k # l => new[k] = seen.signers[a][k]
    BY <1>5, <2>2
  <2> HIDE DEF new
  <2>5. /\ DOMAIN signers = D /\ signers[a] = new
        /\ \A s \in D : s # a => signers[s] = seen.signers[s]
    BY <1>5, <2>2 DEF signers
  <2>6. \A s \in D : DOMAIN signers[s] = Kept
    BY <1>5, <2>4, <2>5
  <2>7. ASSUME NEW s \in D, NEW k \in Kept
        PROVE  signers[s][k] = IF l = k /\ s = a THEN taken ELSE seen.signers[s][k]
    BY <2>4, <2>5
  <2>8. l # "mac" /\ l # "c2" /\ l # "c3"
    BY <2>2 DEF Kept
  <2>9. \A s \in D : \A k \in Kept :
            r.signers[s][k] = IF inst.label = k /\ s = inst.signer + 1
                              THEN taken ELSE seen.signers[s][k]
    BY <2>3, <2>7 DEF a, l
  <2> QED BY <2>3, <2>5, <2>6, <2>8, <2>9 DEF inst, role, D, taken, r, l
<1>9. CASE inst.label = "c3" /\ role # <<>>
  <2>1. r = [seen EXCEPT !.z = taken[1]]
    BY <1>3, <1>6, <1>9 DEF Remember
  <2>2. /\ DOMAIN r = SeenFields /\ r.signers = seen.signers /\ r.z = taken[1]
        /\ r.qx = seen.qx /\ r.qy = seen.qy /\ r.mac = seen.mac
    BY <1>5, <2>1 DEF SeenFields
  <2>3. "c3" \notin Kept
    BY DEF Kept
  <2> QED BY <1>5, <1>9, <2>2, <2>3 DEF inst, role, D, taken, r
<1>10. CASE inst.label = "c2" /\ role # <<>>
  <2>1. r = [seen EXCEPT !.qx = taken[1], !.qy = taken[2]]
    BY <1>3, <1>6, <1>10 DEF Remember
  <2>2. /\ DOMAIN r = SeenFields /\ r.signers = seen.signers /\ r.z = seen.z
        /\ r.qx = taken[1] /\ r.qy = taken[2] /\ r.mac = seen.mac
    BY <1>5, <2>1 DEF SeenFields
  <2>3. "c2" \notin Kept
    BY DEF Kept
  <2> QED BY <1>5, <1>10, <2>2, <2>3 DEF inst, role, D, taken, r
<1>11. CASE inst.label \notin Kept \cup {"mac"} /\ ~(inst.label \in {"c2", "c3"} /\ role # <<>>)
  <2>1. r = seen
    BY <1>3, <1>6, <1>11 DEF Remember, Kept
  <2>2. \A l \in Kept : inst.label # l
    BY <1>11
  <2> QED BY <1>5, <1>11, <2>1, <2>2 DEF inst, role, D, taken, r
<1> QED BY <1>7, <1>8, <1>9, <1>10, <1>11

(* No other instance overwrites what is kept of one. *)
LEMMA KeptStays ==
    ASSUME Shaped, InInstances, at <= Len(VerifierInsts), NEW j \in 1 .. at - 1, KeptOf(j),
           case' = case, bundle' = bundle, seen' = Remember(Insts[at], TakenAt(at))
    PROVE  KeptOf(j)'
<1> DEFINE a == Insts[at]
           b == Insts[j]
           D == DOMAIN Expected.projections
           mode == case.prover.mode
<1>1. /\ case \in Cases /\ N \in Nat /\ at \in 1 .. N
      /\ Len(Expected.projections) = Len(case.prover.projections)
  BY AtAnInstance DEF InInstances, Agreed
<1>2. j \in 1 .. N /\ j # at
  BY <1>1
<1>3. a # b
  <2>1. IsCall(case.prover) /\ Insts = ProverInstances(case.prover)
    BY <1>1, CaseFacts
  <2>2. at \in 1 .. Len(ProverInstances(case.prover)) /\ j \in 1 .. Len(ProverInstances(case.prover))
    BY <1>1, <1>2, <2>1 DEF N
  <2> QED BY <1>2, <2>1, <2>2, MetOnce
<1>4. /\ a.label \in Labels /\ b.label \in Labels
      /\ a.label = "mac" => a = MacBatch
      /\ b.label = "mac" => b = MacBatch
      /\ a.label # "mac" => a = Instance(a.signer, a.label)
      /\ b.label # "mac" =>
            b = Instance(b.signer, b.label) /\ b.signer \in 0 .. Len(case.prover.projections) - 1
  BY <1>1, <1>2, InstanceFacts
<1>5. /\ seen'.mac = IF a.label = "mac" THEN SubSeq(TakenAt(at), 5, Len(TakenAt(at))) ELSE seen.mac
      /\ seen'.z = IF a.label = "c3" /\ RoleNames(mode, a) # <<>> THEN TakenAt(at)[1] ELSE seen.z
      /\ IF a.label = "c2" /\ RoleNames(mode, a) # <<>>
         THEN seen'.qx = TakenAt(at)[1] /\ seen'.qy = TakenAt(at)[2]
         ELSE seen'.qx = seen.qx /\ seen'.qy = seen.qy
      /\ \A s \in D : \A l \in Kept :
            seen'.signers[s][l] = IF a.label = l /\ s = a.signer + 1
                                  THEN TakenAt(at) ELSE seen.signers[s][l]
  BY Remembered
<1>6. /\ Insts' = Insts /\ TakenAt(j)' = TakenAt(j) /\ case'.prover.mode = mode
  BY CaseKept DEF TakenAt
<1>7. b.label \in Kept => b.signer + 1 \in D /\ b.signer \in Int
  <2>1. IsCall(case.verifier)
    BY <1>1, CaseFacts
  <2>2. Expected.projections \in Seq([PublicFields -> Int])
    BY <2>1 DEF IsCall, Expected
  <2>3. D = 1 .. Len(Expected.projections) /\ Len(Expected.projections) \in Nat
    BY <2>2, LenProperties
  <2>4. b.label \in Kept => b.label # "mac"
    BY DEF Kept
  <2> QED BY <1>1, <1>4, <2>3, <2>4
<1> DEFINE t == TakenAt(j)
<1>8. /\ b.label \in Kept => seen.signers[b.signer + 1][b.label] = t
      /\ b.label = "c3" /\ RoleNames(mode, b) # <<>> => seen.z = t[1]
      /\ b.label = "c2" /\ RoleNames(mode, b) # <<>> => seen.qx = t[1] /\ seen.qy = t[2]
      /\ b.label = "mac" => \A h \in 1 .. MacHalfCount : seen.mac[h] = t[4 + h]
  BY DEF KeptOf
<1> HIDE DEF a, b, D, mode, t
<1>9. ASSUME b.label \in Kept
      PROVE  seen'.signers[b.signer + 1][b.label] = t
  <2>1. ~(a.label = b.label /\ b.signer + 1 = a.signer + 1)
    <3>1. ASSUME a.label = b.label, b.signer + 1 = a.signer + 1
          PROVE  FALSE
      <4>1. b.label # "mac" /\ a.label # "mac"
        BY <1>9, <3>1 DEF Kept
      <4>2. a = Instance(a.signer, a.label) /\ b = Instance(b.signer, b.label)
        BY <1>4, <4>1
      <4>3. a.signer \in Int
        BY <1>1, <4>1, InstanceFacts DEF a
      <4>4. a.signer = b.signer
        BY <1>7, <1>9, <3>1, <4>3
      <4> QED BY <1>3, <3>1, <4>2, <4>4
    <3> QED BY <3>1
  <2> QED BY <1>5, <1>7, <1>8, <1>9, <2>1
<1>10. ASSUME b.label = "c3", RoleNames(mode, b) # <<>>
       PROVE  seen'.z = t[1]
  <2>1. ~(a.label = "c3" /\ RoleNames(mode, a) # <<>>)
    <3>1. ASSUME a.label = "c3", RoleNames(mode, a) # <<>>
          PROVE  FALSE
      <4>1. a.signer = 0 /\ b.signer = 0
        BY <1>10, <3>1 DEF RoleNames
      <4> QED BY <1>3, <1>4, <1>10, <3>1, <4>1
    <3> QED BY <3>1
  <2> QED BY <1>5, <1>8, <1>10, <2>1
<1>11. ASSUME b.label = "c2", RoleNames(mode, b) # <<>>
       PROVE  seen'.qx = t[1] /\ seen'.qy = t[2]
  <2>1. ~(a.label = "c2" /\ RoleNames(mode, a) # <<>>)
    <3>1. ASSUME a.label = "c2", RoleNames(mode, a) # <<>>
          PROVE  FALSE
      <4>1. a.signer = 1 /\ b.signer = 1
        BY <1>11, <3>1 DEF RoleNames
      <4> QED BY <1>3, <1>4, <1>11, <3>1, <4>1
    <3> QED BY <3>1
  <2> QED BY <1>5, <1>8, <1>11, <2>1
<1>12. ASSUME b.label = "mac"
       PROVE  \A h \in 1 .. MacHalfCount : seen'.mac[h] = t[4 + h]
  <2>1. a.label # "mac"
    BY <1>3, <1>4, <1>12
  <2> QED BY <1>5, <1>8, <1>12, <2>1
<1> QED BY <1>6, <1>9, <1>10, <1>11, <1>12 DEF KeptOf, b, t, mode

(* And of the instance walked, its own is kept. *)
LEMMA KeptNow ==
    ASSUME Shaped, InInstances, at <= Len(VerifierInsts),
           case' = case, bundle' = bundle, seen' = Remember(Insts[at], TakenAt(at)),
           NEW j, j = at
    PROVE  KeptOf(j)'
<1> DEFINE a == Insts[at]
           t == TakenAt(at)
           D == DOMAIN Expected.projections
           mode == case.prover.mode
<1>1. /\ case \in Cases /\ N \in Nat /\ at \in 1 .. N
      /\ Len(Expected.projections) = Len(case.prover.projections)
      /\ Mark[at] \in Nat /\ SentCounts[at] \in Nat
  BY AtAnInstance DEF InInstances, Agreed
<1>2. /\ a.label \in Labels
      /\ a.label # "mac" => a.signer \in 0 .. Len(case.prover.projections) - 1
  BY <1>1, InstanceFacts
<1>3. /\ seen'.mac = IF a.label = "mac" THEN SubSeq(t, 5, Len(t)) ELSE seen.mac
      /\ seen'.z = IF a.label = "c3" /\ RoleNames(mode, a) # <<>> THEN t[1] ELSE seen.z
      /\ IF a.label = "c2" /\ RoleNames(mode, a) # <<>>
         THEN seen'.qx = t[1] /\ seen'.qy = t[2] ELSE seen'.qx = seen.qx /\ seen'.qy = seen.qy
      /\ \A s \in D : \A l \in Kept :
            seen'.signers[s][l] = IF a.label = l /\ s = a.signer + 1 THEN t ELSE seen.signers[s][l]
  BY Remembered
<1>4. a.label \in Kept => a.signer + 1 \in D
  <2>1. IsCall(case.verifier)
    BY <1>1, CaseFacts
  <2>2. Expected.projections \in Seq([PublicFields -> Int])
    BY <2>1 DEF IsCall, Expected
  <2>3. D = 1 .. Len(Expected.projections) /\ Len(Expected.projections) \in Nat
    BY <2>2, LenProperties
  <2>4. a.label \in Kept => a.label # "mac"
    BY DEF Kept
  <2>5. a.label \in Kept => a.signer \in 0 .. Len(Expected.projections) - 1
    BY <1>1, <1>2, <2>4
  <2> QED BY <2>3, <2>5
<1>5. Insts' = Insts /\ TakenAt(j)' = t /\ case'.prover.mode = mode
  <2>1. Insts' = Insts /\ Mark' = Mark /\ SentCounts' = SentCounts
    BY CaseKept
  <2> QED BY <2>1 DEF TakenAt
<1>6. a.label = "mac" => \A h \in 1 .. MacHalfCount : SubSeq(t, 5, Len(t))[h] = t[4 + h]
  <2>1. ASSUME a.label = "mac"
        PROVE  Len(t) = 10
    <3>1. SentCounts[at] = 10
      BY <1>1, <2>1 DEF SentCounts, MacHalfCount
    <3> DEFINE lo == Mark[at] + 1
               hi == Mark[at] + SentCounts[at]
    <3>2. lo \in Int /\ hi \in Int /\ lo <= hi + 1 /\ (hi - lo) + 1 = 10
      BY <1>1, <3>1
    <3>3. t = SubSeq(bundle.values, lo, hi)
      BY DEF TakenAt
    <3> HIDE DEF lo, hi, t
    <3> QED BY <3>2, <3>3, Cut
  <2> HIDE DEF t
  <2>2. \A i \in 1 .. (10 - 5) + 1 : SubSeq(t, 5, 10)[i] = t[(5 + i) - 1]
    BY Cut
  <2>3. \A h \in 1 .. 6 : h \in 1 .. (10 - 5) + 1 /\ (5 + h) - 1 = 4 + h
    OBVIOUS
  <2> QED BY <2>1, <2>2, <2>3 DEF MacHalfCount
<1>7. j = at
  OBVIOUS
<1> HIDE DEF a, t, D, mode
<1>8. a.label \in Kept => seen'.signers[a.signer + 1][a.label] = t
  BY <1>3, <1>4
<1> QED BY <1>3, <1>5, <1>6, <1>7, <1>8 DEF KeptOf, a, mode

LEMMA VerifyInstanceKeeps ==
    ASSUME Shaped, InInstances, VerifyInstance
    PROVE  IInv'
<1> DEFINE inst == Insts[at]
           entry == bundle.entries[at]
           taken == TakenAt(at)
           q == VerifierClaimsOf(inst, LayoutAt[at], entry, taken)
<1>1. /\ case \in Cases /\ N \in Nat /\ at \in 1 .. N /\ at <= Len(VerifierInsts)
      /\ VerifierInsts[at] = inst /\ layouts.verifier[at] = LayoutAt[at]
      /\ Expected.mode = case.prover.mode /\ VerifierRoot = Root
      /\ DrawAv(Expected.seed, bundle.rootA) = Av /\ bundle.tags = TagsMade
      /\ TakenCount(inst) = SentCounts[at] /\ Taken(inst) = taken
  BY AtAnInstance DEF VerifyInstance
<1>2. \/ \E verdict : verdict # "accepted" /\ Answer(verdict)
      \/ /\ SumcheckHolds(inst, entry) /\ claims' = claims \o q
         /\ cursor' = cursor + SentCounts[at] /\ seen' = Remember(inst, taken) /\ at' = at + 1
         /\ case' = case /\ phase' = phase /\ layouts' = layouts /\ bundle' = bundle
         /\ outcome' = outcome
  <2>1. CASE ~SumcheckHolds(inst, entry)
    <3>1. Answer("Sumcheck")
      BY <1>1, <2>1 DEF VerifyInstance
    <3> QED BY <3>1
  <2>2. CASE SumcheckHolds(inst, entry)
    BY <1>1, <2>2 DEF VerifyInstance
  <2> QED BY <2>1, <2>2
<1>3. CASE \E verdict : verdict # "accepted" /\ Answer(verdict)
  BY <1>3, RefusalKeeps
<1> HIDE DEF q
<1>4. CASE /\ SumcheckHolds(inst, entry) /\ claims' = claims \o q
           /\ cursor' = cursor + SentCounts[at] /\ seen' = Remember(inst, taken) /\ at' = at + 1
           /\ case' = case /\ phase' = phase /\ layouts' = layouts /\ bundle' = bundle
           /\ outcome' = outcome
  <2>1. /\ Insts' = Insts /\ N' = N /\ Mark' = Mark /\ LayoutAt' = LayoutAt /\ Expected' = Expected
        /\ Root' = Root /\ Av' = Av /\ TagsMade' = TagsMade /\ SentCounts' = SentCounts
    BY <1>4, CaseKept
  <2>2. IsSequence(q)
    BY <1>1, ClaimsMade DEF q
  <2>3. IsSequence(claims)
    BY DEF InInstances
  <2>4. /\ IsSequence(claims')
        /\ \A x : Within(x, claims) => Within(x, claims')
        /\ \A x : Within(x, q) => Within(x, claims')
    BY <1>4, <2>2, <2>3, Joined, WithinJoined
  <2>5. \A j : TakenAt(j)' = TakenAt(j)
    BY <1>4, <2>1 DEF TakenAt
  <2>6. ASSUME NEW j \in 1 .. at - 1
        PROVE  Passed(j)'
    <3>1. Passed(j)
      BY DEF InInstances
    <3>2. Channeled(j)'
      BY <1>4, <2>1, <3>1 DEF Passed, Channeled
    <3>3. PublicClaimed(j)'
      BY <2>1, <2>4, <3>1 DEF Passed, PublicClaimed
    <3>4. PrivateClaimed(j)'
      BY <1>4, <2>1, <2>4, <2>5, <3>1 DEF Passed, PrivateClaimed
    <3>5. MacClaimed(j)'
      BY <2>1, <2>4, <2>5, <3>1 DEF Passed, MacClaimed
    <3>6. KeptOf(j)'
      BY <1>1, <1>4, <3>1, KeptStays DEF Passed
    <3> QED BY <3>2, <3>3, <3>4, <3>5, <3>6 DEF Passed
  <2>7. ASSUME NEW j, j = at
        PROVE  Passed(j)'
    <3>1. Channeled(j)'
      <4>1. entry.channel = InstanceChannel(inst, Expected, Root, Av, TagsMade)
        BY <1>1, <1>4 DEF SumcheckHolds
      <4> QED BY <1>4, <2>1, <2>7, <4>1 DEF Channeled
    <3>2. PublicClaimed(j)'
      <4>1. inst.label # "mac" => \A name \in PublicNames(inst.label) :
                Expected.projections[inst.signer + 1][name] # None =>
                    Within(FixedClaim(LayoutAt[at], Position(inst.label, name),
                              Value(inst.signer, name, Expected.projections[inst.signer + 1][name])), q)
        BY <1>1, ClaimsMade DEF q
      <4> QED BY <2>1, <2>4, <2>7, <4>1 DEF PublicClaimed
    <3>3. PrivateClaimed(j)'
      <4>1. inst.label # "mac" => \A i \in 1 .. SentCounts[at] :
                Within(FixedClaim(LayoutAt[at],
                          Position(inst.label, PrivateNames(case.prover.mode, inst)[i]), taken[i]), q)
        BY <1>1, ClaimsMade DEF q
      <4>2. TakenAt(j)' = taken
        BY <2>5, <2>7
      <4> QED BY <1>4, <2>1, <2>4, <2>7, <4>1, <4>2 DEF PrivateClaimed
    <3>4. MacClaimed(j)'
      <4>1. inst.label = "mac" => \A h \in 1 .. MacHalfCount :
                Within(FixedClaim(LayoutAt[at], 3 * h - 1, taken[4 + h]), q)
        BY <1>1, ClaimsMade DEF q
      <4>2. TakenAt(j)' = taken
        BY <2>5, <2>7
      <4> QED BY <2>1, <2>4, <2>7, <4>1, <4>2 DEF MacClaimed
    <3>5. KeptOf(j)'
      BY <1>1, <1>4, <2>7, KeptNow
    <3> QED BY <3>1, <3>2, <3>3, <3>4, <3>5 DEF Passed
  <2>8. at' \in Nat \ {0} /\ at' <= N' + 1 /\ at' - 1 = at
    BY <1>1, <1>4, <2>1
  <2>9. \A j \in 1 .. at' - 1 : Passed(j)'
    <3>1. ASSUME NEW j \in 1 .. at
          PROVE  Passed(j)'
      <4>1. j = at \/ j \in 1 .. at - 1
        BY <1>1
      <4> QED BY <2>6, <2>7, <4>1
    <3> QED BY <2>8, <3>1
  <2>10. cursor' = Mark'[at']
    <3>1. Mark[at + 1] = Mark[at] + SentCounts[at]
      BY <1>1, MarkSteps
    <3> QED BY <1>4, <2>1, <3>1 DEF InInstances
  <2>11. LaidOut(N)' /\ Delivered' /\ Agreed'
    BY <1>4, DeliveredStays, AgreedStays DEF InInstances
  <2>12. SeenShaped'
    <3>1. /\ DOMAIN seen' = SeenFields /\ DOMAIN seen'.signers = DOMAIN Expected.projections
          /\ \A s \in DOMAIN Expected.projections : DOMAIN seen'.signers[s] = Kept
      BY <1>1, <1>4, Remembered
    <3> QED BY <2>1, <3>1 DEF SeenShaped
  <2>13. \A j \in 1 .. N' : layouts'.verifier[j] = LayoutAt'[j]
    BY <1>4, <2>1 DEF InInstances
  <2>14. Shaped'
    BY <1>4, <2>8 DEF Shaped, InInstances
  <2>15. phase' = "instances"
    BY <1>4 DEF InInstances
  <2>16. InInstances'
    BY <2>4, <2>8, <2>9, <2>10, <2>11, <2>12, <2>13, <2>15 DEF InInstances
  <2> QED BY <2>14, <2>16 DEF IInv
<1> QED BY <1>2, <1>3, <1>4

-----------------------------------------------------------------------------
(* What an accepted walk has shown.                                        *)

LEMMA RowsCover ==
    ASSUME NEW x \in Nat
    PROVE  GroupBOffset(x) >= x
<1> DEFINE a == x + RowLen - 1
<1>1. RowLen \in Nat \ {0}
  BY BundleAssumption
<1>2. a \in Int
  BY <1>1
<1> HIDE DEF a
<1>3. /\ a \div RowLen \in Int /\ a % RowLen \in Int
      /\ a = RowLen * (a \div RowLen) + (a % RowLen)
      /\ 0 <= a % RowLen /\ a % RowLen < RowLen
  BY <1>1, <1>2, Z3
<1> DEFINE d == a \div RowLen
           e == a % RowLen
<1> HIDE DEF d, e
<1>4. d \in Int /\ e \in Int /\ a = RowLen * d + e /\ e < RowLen
  BY <1>3 DEF d, e
<1>5. RowLen * d = d * RowLen /\ RowLen * d \in Int
  BY <1>1, <1>4
<1>6. d * RowLen >= x
  BY <1>1, <1>4, <1>5 DEF a
<1> QED BY <1>6 DEF GroupBOffset, RowCount, d, a

Accepting ==
    /\ Shaped /\ InInstances /\ at = N + 1 /\ cursor = Len(bundle.values)
    /\ \A i \in DOMAIN seen.signers : FamiliesAgree(seen.signers[i])
    /\ Expected.mode = "mdoc" => MacAgrees
    /\ BatchHolds

LEMMA AcceptingFacts ==
    ASSUME Accepting
    PROVE  /\ case \in Cases /\ N \in Nat /\ N >= 6 /\ \A j \in 1 .. N : Passed(j)
           /\ Agreed /\ Delivered /\ LaidOut(N)
           /\ IsCall(case.prover) /\ IsCall(case.verifier) /\ Insts = ProverInstances(case.prover)
           /\ Len(case.prover.projections) \in Nat /\ Len(case.prover.projections) >= 1
           /\ Len(Expected.projections) = Len(case.prover.projections)
           /\ DOMAIN Expected.projections = 1 .. Len(case.prover.projections)
           /\ case.fault \in Faults
<1>1. case \in Cases /\ Agreed /\ Delivered /\ LaidOut(N)
  BY DEF Accepting, Shaped, InInstances
<1>2. /\ N \in Nat /\ N >= 6 /\ IsCall(case.prover) /\ IsCall(case.verifier)
      /\ Insts = ProverInstances(case.prover) /\ case.fault \in Faults
  BY <1>1, CaseFacts
<1>3. Len(case.prover.projections) \in Nat /\ Len(case.prover.projections) >= 1
  BY <1>2, ProverWalk
<1>4. Len(Expected.projections) = Len(case.prover.projections)
  BY <1>1 DEF Agreed
<1>5. DOMAIN Expected.projections = 1 .. Len(case.prover.projections)
  <2>1. Expected.projections \in Seq([PublicFields -> Int])
    BY <1>2 DEF IsCall, Expected
  <2>2. DOMAIN Expected.projections = 1 .. Len(Expected.projections)
    BY <2>1, LenProperties
  <2> QED BY <1>4, <2>2
<1>6. at - 1 = N
  BY <1>2 DEF Accepting
<1>7. \A j \in 1 .. N : Passed(j)
  BY <1>6 DEF Accepting, InInstances
<1> QED BY <1>1, <1>2, <1>3, <1>4, <1>5, <1>7

(* A claim that is opened is of the committed cell. *)
LEMMA HeldCell ==
    ASSUME Accepting, NEW j \in 1 .. N, NEW idx \in 1 .. Len(Inputs[j]), NEW v,
           Within(FixedClaim(LayoutAt[j], idx, v), claims)
    PROVE  v = Inputs[j][idx]
<1> DEFINE c == FixedClaim(LayoutAt[j], idx, v)
           g == bundle.groupA
           x == Place[j]
           l == Len(Inputs[j])
<1>1. /\ case \in Cases /\ N \in Nat /\ LaidOut(N)
  BY AcceptingFacts
<1>2. /\ InputLen(Insts[j].label) = l /\ l \in Nat \ {0} /\ PadLen[Insts[j].label] \in Nat
      /\ Place[j + 1] = x + l + PadLen[Insts[j].label] /\ x \in Nat
  <2>1. j \in 1 .. N + 1
    BY <1>1
  <2> QED BY <1>1, <2>1, PlaceSteps
<1>3. Place[j + 1] <= Place[N + 1]
  <2>1. N + 1 \in j + 1 .. N + 1
    BY <1>1
  <2> QED BY <1>1, <2>1, PlaceSteps
<1>4. IsSequence(g) /\ Len(g) = Place[N + 1] /\ \A i \in 1 .. l : g[x + i] = Inputs[j][i]
  BY <1>1 DEF LaidOut
<1>5. c.offset = x /\ c.len = l /\ c.point = <<"fixed", idx>> /\ c.value = v
  <2>1. LayoutAt[j] = Layout(x, l, PadLen[Insts[j].label])
    BY <1>2 DEF LayoutAt
  <2> QED BY <2>1 DEF FixedClaim, Claim, Layout, Fixed
<1>6. Holds(c)
  <2>1. PICK k \in 1 .. Len(claims) : claims[k] = c
    BY DEF Within
  <2>2. IsSequence(claims)
    BY DEF Accepting, InInstances
  <2>3. k \in DOMAIN claims
    BY <2>2 DEF IsSequence
  <2> QED BY <2>1, <2>3 DEF Accepting, BatchHolds
<1> HIDE DEF c, g, x, l
<1>7. Len(g) \in Nat /\ x + l <= Len(g) /\ GroupBOffset(Len(g)) >= Len(g)
  <2>1. Len(g) \in Nat
    BY <1>4 DEF IsSequence
  <2>2. GroupBOffset(Len(g)) >= Len(g)
    BY <2>1, RowsCover
  <2>3. x + l <= Len(g)
    <3> DEFINE p == PadLen[Insts[j].label]
               y == Place[j + 1]
               z == Place[N + 1]
    <3>1. p \in Nat /\ y = x + l + p /\ y <= z /\ z = Len(g)
      BY <1>2, <1>3, <1>4
    <3> HIDE DEF p, y, z
    <3> QED BY <1>2, <2>1, <3>1
  <2> QED BY <2>1, <2>2, <2>3
<1> DEFINE off == GroupBOffset(Len(g))
<1>8. ~(c.offset >= off)
  <2>1. off \in Int
    <3>1. RowLen \in Nat \ {0}
      BY BundleAssumption
    <3> QED BY <1>7, <3>1 DEF GroupBOffset, RowCount
  <2> HIDE DEF off
  <2>2. off >= Len(g)
    BY <1>7 DEF off
  <2> QED BY <1>2, <1>5, <1>7, <2>1, <2>2
<1>9. SubSeq(g, x + 1, x + l)[idx] = v
  <2>1. c.point[1] = "fixed" /\ c.point[2] = idx
    BY <1>5
  <2> QED BY <1>5, <1>6, <1>8, <2>1 DEF Holds, g
<1>10. SubSeq(g, x + 1, x + l)[idx] = g[x + idx]
  <2> DEFINE lo == x + 1
             hi == x + l
  <2>1. /\ lo \in Int /\ hi \in Int /\ lo <= hi + 1 /\ idx \in 1 .. (hi - lo) + 1
        /\ (lo + idx) - 1 = x + idx
    BY <1>2 DEF l
  <2> HIDE DEF lo, hi
  <2>2. SubSeq(g, lo, hi)[idx] = g[(lo + idx) - 1]
    BY <2>1, Cut
  <2> QED BY <2>1, <2>2 DEF lo, hi
<1>11. idx \in 1 .. l
  BY DEF l
<1> QED BY <1>4, <1>9, <1>10, <1>11

(* What is taken of a family is the committed value of the cell it names. *)
LEMMA PrivateHeld ==
    ASSUME Accepting, NEW j \in 1 .. N, Insts[j].label # "mac", NEW i \in 1 .. SentCounts[j]
    PROVE  TakenAt(j)[i] = CellValue(Insts[j].signer, Insts[j].label,
                                     PrivateNames(case.prover.mode, Insts[j])[i])
<1> DEFINE inst == Insts[j]
           names == PrivateNames(case.prover.mode, inst)
<1>1. case \in Cases /\ Passed(j)
  BY AcceptingFacts
<1>2. inst.label \in Labels
  BY <1>1, InstanceFacts
<1>3. i \in 1 .. Len(names)
  BY DEF SentCounts
<1>4. PICK k \in DOMAIN Cells(inst.label) : Cells(inst.label)[k] = names[i]
  BY <1>2, <1>3, PrivateNamesOf
<1> DEFINE p == Position(inst.label, names[i])
<1>5. p \in 1 .. Len(Cells(inst.label)) /\ Cells(inst.label)[p] = names[i]
  BY <1>2, <1>4, PositionHolds
<1>6. p \in DOMAIN Cells(inst.label)
  BY <1>2, <1>5, CellsOfLabel
<1>7. p \in 1 .. Len(Inputs[j]) /\ Inputs[j][p] = CellValue(inst.signer, inst.label, names[i])
  BY <1>1, <1>5, <1>6, InputFacts
<1>8. Within(FixedClaim(LayoutAt[j], p, TakenAt(j)[i]), claims)
  BY <1>1 DEF Passed, PrivateClaimed
<1> QED BY <1>7, <1>8, HeldCell

LEMMA PublicHeld ==
    ASSUME Accepting, NEW j \in 1 .. N, Insts[j].label # "mac",
           NEW name \in PublicNames(Insts[j].label),
           Expected.projections[Insts[j].signer + 1][name] # None
    PROVE  CellValue(Insts[j].signer, Insts[j].label, name)
              = Value(Insts[j].signer, name, Expected.projections[Insts[j].signer + 1][name])
<1> DEFINE inst == Insts[j]
           v == Value(inst.signer, name, Expected.projections[inst.signer + 1][name])
<1>1. case \in Cases /\ Passed(j)
  BY AcceptingFacts
<1>2. inst.label \in Labels
  BY <1>1, InstanceFacts
<1>3. PICK k \in DOMAIN Cells(inst.label) : Cells(inst.label)[k] = name
  BY <1>2, PublicCells
<1> DEFINE p == Position(inst.label, name)
<1>4. p \in 1 .. Len(Cells(inst.label)) /\ Cells(inst.label)[p] = name
  BY <1>2, <1>3, PositionHolds
<1>5. p \in DOMAIN Cells(inst.label)
  BY <1>2, <1>4, CellsOfLabel
<1>6. p \in 1 .. Len(Inputs[j]) /\ Inputs[j][p] = CellValue(inst.signer, inst.label, name)
  BY <1>1, <1>4, <1>5, InputFacts
<1>7. Within(FixedClaim(LayoutAt[j], p, v), claims)
  BY <1>1 DEF Passed, PublicClaimed
<1> HIDE DEF v
<1>8. v = Inputs[j][p]
  BY <1>6, <1>7, HeldCell
<1> QED BY <1>6, <1>8 DEF v

LEMMA MacHeld ==
    ASSUME Accepting, NEW j \in 1 .. N, Insts[j].label = "mac", NEW h \in 1 .. MacHalfCount
    PROVE  TakenAt(j)[4 + h] = HalfValue(h)
<1>1. case \in Cases /\ Passed(j)
  BY AcceptingFacts
<1>2. 3 * h - 1 \in 1 .. Len(Inputs[j]) /\ Inputs[j][3 * h - 1] = HalfValue(h)
  BY <1>1, InputFacts
<1>3. Within(FixedClaim(LayoutAt[j], 3 * h - 1, TakenAt(j)[4 + h]), claims)
  BY <1>1 DEF Passed, MacClaimed
<1> DEFINE idx == 3 * h - 1
<1> HIDE DEF idx
<1>4. idx \in 1 .. Len(Inputs[j]) /\ Within(FixedClaim(LayoutAt[j], idx, TakenAt(j)[4 + h]), claims)
  BY <1>2, <1>3 DEF idx
<1>5. TakenAt(j)[4 + h] = Inputs[j][idx]
  BY <1>4, HeldCell
<1> QED BY <1>2, <1>5 DEF idx

LEMMA FamilyInstance ==
    ASSUME Accepting, NEW s \in 0 .. Len(case.prover.projections) - 1, NEW f \in 1 .. 6
    PROVE  /\ 6 * s + f \in 1 .. N /\ Insts[6 * s + f] = Instance(s, Families[f])
           /\ Insts[6 * s + f].label = Families[f] /\ Insts[6 * s + f].signer = s
           /\ Insts[6 * s + f].label # "mac"
<1>1. IsCall(case.prover) /\ Insts = ProverInstances(case.prover)
  BY AcceptingFacts
<1>2. 6 * s + f \in 1 .. N /\ Insts[6 * s + f] = Instance(s, Families[f])
  BY <1>1, FamilyPlace DEF N
<1>3. Families[f] # "mac"
  BY FamilyLabels
<1> QED BY <1>2, <1>3 DEF Instance

(* What is kept of a signer's points is what its cells hold. *)
LEMMA PointsHeld ==
    ASSUME Accepting, NEW s \in 0 .. Len(case.prover.projections) - 1
    PROVE  /\ \A i \in 1 .. 6 :
                /\ seen.signers[s + 1].c11[i] = CellValue(s, "c11", PointNames[i])
                /\ seen.signers[s + 1].c12[i] = CellValue(s, "c12", PointNames[i])
           /\ seen.signers[s + 1].c14[1] = CellValue(s, "c14", "rx")
<1>1. /\ Families[4] = "c11" /\ Families[5] = "c12" /\ Families[6] = "c14"
      /\ 4 \in 1 .. 6 /\ 5 \in 1 .. 6 /\ 6 \in 1 .. 6
  BY FamilyLabels
<1>2. ASSUME NEW f \in 1 .. 6, NEW label \in {"c11", "c12"}, Families[f] = label
      PROVE  \A i \in 1 .. 6 :
                seen.signers[s + 1][label][i] = CellValue(s, label, PointNames[i])
  <2> DEFINE j == 6 * s + f
  <2>1. j \in 1 .. N /\ Insts[j].label = label /\ Insts[j].signer = s /\ Insts[j].label # "mac"
    BY <1>2, FamilyInstance
  <2> HIDE DEF j
  <2>2. Passed(j)
    BY <2>1, AcceptingFacts
  <2>3. seen.signers[s + 1][label] = TakenAt(j)
    BY <2>1, <2>2 DEF Passed, KeptOf, Kept
  <2>4. PrivateNames(case.prover.mode, Insts[j]) = PointNames
    BY <2>1 DEF PrivateNames
  <2>5. SentCounts[j] = 6
    BY <2>1, <2>4, PointNamesOf DEF SentCounts
  <2>6. \A i \in 1 .. SentCounts[j] :
            TakenAt(j)[i] = CellValue(Insts[j].signer, Insts[j].label,
                                      PrivateNames(case.prover.mode, Insts[j])[i])
    BY <2>1, PrivateHeld
  <2> QED BY <2>1, <2>3, <2>4, <2>5, <2>6
<1>3. seen.signers[s + 1].c14[1] = CellValue(s, "c14", "rx")
  <2> DEFINE j == 6 * s + 6
  <2>1. j \in 1 .. N /\ Insts[j].label = "c14" /\ Insts[j].signer = s /\ Insts[j].label # "mac"
    BY <1>1, FamilyInstance
  <2> HIDE DEF j
  <2>2. Passed(j)
    BY <2>1, AcceptingFacts
  <2>3. seen.signers[s + 1].c14 = TakenAt(j)
    BY <2>1, <2>2 DEF Passed, KeptOf, Kept
  <2>4. PrivateNames(case.prover.mode, Insts[j]) = <<"rx">>
    BY <2>1 DEF PrivateNames
  <2>5. Len(<<"rx">>) = 1 /\ <<"rx">>[1] = "rx"
    BY Tuple1
  <2>6. SentCounts[j] = 1
    BY <2>1, <2>4, <2>5 DEF SentCounts
  <2>7. 1 \in 1 .. SentCounts[j]
    BY <2>6
  <2>8. TakenAt(j)[1] = CellValue(Insts[j].signer, Insts[j].label,
                                  PrivateNames(case.prover.mode, Insts[j])[1])
    BY <2>1, <2>7, PrivateHeld
  <2> QED BY <2>1, <2>3, <2>4, <2>5, <2>8
<1>4. \A i \in 1 .. 6 : seen.signers[s + 1]["c11"][i] = CellValue(s, "c11", PointNames[i])
  BY <1>1, <1>2
<1>5. \A i \in 1 .. 6 : seen.signers[s + 1]["c12"][i] = CellValue(s, "c12", PointNames[i])
  BY <1>1, <1>2
<1> QED BY <1>3, <1>4, <1>5

LEMMA OnePointAccepted ==
    ASSUME Accepting, NEW s \in 0 .. Len(case.prover.projections) - 1
    PROVE  /\ \A name \in {"ax", "ay", "bx", "by", "ry"} : Together(s, name, {"c11", "c12"})
           /\ Together(s, "rx", {"c11", "c12", "c14"})
<1> DEFINE a == seen.signers[s + 1].c11
           b == seen.signers[s + 1].c12
           c == seen.signers[s + 1].c14
<1>1. /\ SubSeq(b, 1, 4) = SubSeq(a, 1, 4) /\ SubSeq(a, 5, 6) = SubSeq(b, 5, 6)
      /\ a[5] = c[1]
  <2>1. s + 1 \in 1 .. Len(case.prover.projections)
    BY AcceptingFacts
  <2>2. s + 1 \in DOMAIN seen.signers
    BY <2>1, AcceptingFacts DEF Accepting, InInstances, SeenShaped
  <2>3. FamiliesAgree(seen.signers[s + 1])
    BY <2>2 DEF Accepting
  <2> QED BY <2>3 DEF FamiliesAgree
<1>2. /\ \A i \in 1 .. 6 : a[i] = CellValue(s, "c11", PointNames[i])
                           /\ b[i] = CellValue(s, "c12", PointNames[i])
      /\ c[1] = CellValue(s, "c14", "rx")
  BY PointsHeld
<1> HIDE DEF a, b, c
<1>3. ASSUME NEW x
      PROVE  /\ SubSeq(x, 1, 4)[1] = x[1] /\ SubSeq(x, 1, 4)[2] = x[2]
             /\ SubSeq(x, 1, 4)[3] = x[3] /\ SubSeq(x, 1, 4)[4] = x[4]
             /\ SubSeq(x, 5, 6)[1] = x[5] /\ SubSeq(x, 5, 6)[2] = x[6]
  <2>1. \A i \in 1 .. 4 - 1 + 1 : SubSeq(x, 1, 4)[i] = x[1 + i - 1]
    BY Cut
  <2>2. \A i \in 1 .. 6 - 5 + 1 : SubSeq(x, 5, 6)[i] = x[5 + i - 1]
    BY Cut
  <2> QED BY <2>1, <2>2
<1>4. /\ a[1] = b[1] /\ a[2] = b[2] /\ a[3] = b[3] /\ a[4] = b[4] /\ a[5] = b[5] /\ a[6] = b[6]
  <2>1. a[1] = b[1] /\ a[2] = b[2] /\ a[3] = b[3] /\ a[4] = b[4]
    BY <1>1, <1>3
  <2>2. a[5] = b[5] /\ a[6] = b[6]
    BY <1>1, <1>3
  <2> QED BY <2>1, <2>2
<1>5. /\ CellValue(s, "c11", "ax") = CellValue(s, "c12", "ax")
      /\ CellValue(s, "c11", "ay") = CellValue(s, "c12", "ay")
      /\ CellValue(s, "c11", "bx") = CellValue(s, "c12", "bx")
      /\ CellValue(s, "c11", "by") = CellValue(s, "c12", "by")
      /\ CellValue(s, "c11", "rx") = CellValue(s, "c12", "rx")
      /\ CellValue(s, "c11", "ry") = CellValue(s, "c12", "ry")
      /\ CellValue(s, "c11", "rx") = CellValue(s, "c14", "rx")
  <2>1. \A i \in 1 .. 6 : a[i] = b[i] =>
            CellValue(s, "c11", PointNames[i]) = CellValue(s, "c12", PointNames[i])
    BY <1>2
  <2>2. a[5] = CellValue(s, "c11", "rx")
    BY <1>2, PointNamesOf
  <2> QED BY <1>1, <1>2, <1>4, <2>1, <2>2, PointNamesOf
<1> QED BY <1>5, Zenon DEF Together

LEMMA PublishedAccepted ==
    ASSUME Accepting, NEW i \in DOMAIN Expected.projections, NEW label \in {"c1", "c2", "c3", "c14"},
           NEW name \in PublicNames(label), Expected.projections[i][name] # None
    PROVE  CellValue(i - 1, label, name) = Value(i - 1, name, Expected.projections[i][name])
<1> DEFINE s == i - 1
<1>1. s \in 0 .. Len(case.prover.projections) - 1 /\ s + 1 = i
  BY AcceptingFacts
<1> HIDE DEF s
<1>2. PICK f \in 1 .. 6 : Families[f] = label
  <2>1. label = "c1" \/ label = "c2" \/ label = "c3" \/ label = "c14"
    OBVIOUS
  <2>2. 1 \in 1 .. 6 /\ 2 \in 1 .. 6 /\ 3 \in 1 .. 6 /\ 6 \in 1 .. 6
    OBVIOUS
  <2> QED BY <2>1, <2>2, FamilyLabels
<1> DEFINE j == 6 * s + f
<1>3. j \in 1 .. N /\ Insts[j].label = label /\ Insts[j].signer = s /\ Insts[j].label # "mac"
  BY <1>1, <1>2, FamilyInstance
<1> HIDE DEF j
<1>4. name \in PublicNames(Insts[j].label)
      /\ Expected.projections[Insts[j].signer + 1][name] # None
  BY <1>1, <1>3
<1>5. CellValue(Insts[j].signer, Insts[j].label, name)
         = Value(Insts[j].signer, name, Expected.projections[Insts[j].signer + 1][name])
  BY <1>3, <1>4, PublicHeld
<1> QED BY <1>1, <1>3, <1>5 DEF s

LEMMA MacAccepted ==
    ASSUME Accepting, Expected.mode = "mdoc"
    PROVE  \A h \in {1, 3, 5} :
                Recompose(HalfValue(h), HalfValue(h + 1))
                    = CellValue(Half[h][1], IF h = 1 THEN "c3" ELSE "c2", Half[h][2])
<1> DEFINE n == Len(case.prover.projections)
           mode == case.prover.mode
<1>1. /\ mode = "mdoc" /\ IsCall(case.prover) /\ Insts = ProverInstances(case.prover)
      /\ n \in Nat /\ n >= 2 /\ N = 6 * n + 1 /\ case \in Cases /\ MacAgrees
  <2>1. mode = "mdoc" /\ IsCall(case.prover) /\ case \in Cases /\ MacAgrees
        /\ Insts = ProverInstances(case.prover)
    BY AcceptingFacts, Zenon DEF Agreed, Accepting
  <2>2. n \in {2, 3}
    BY <2>1 DEF IsCall
  <2>3. IsMdoc /\ N = 6 * n + (IF IsMdoc THEN 1 ELSE 0)
    BY <2>1, CaseFacts, Zenon DEF IsMdoc
  <2>4. N = 6 * n + 1
    BY <2>3
  <2> HIDE DEF n, mode
  <2>5. n \in Nat /\ n >= 2
    BY <2>2
  <2> QED BY <2>1, <2>4, <2>5
<1>2. \A h \in 1 .. 6 : seen.mac[h] = HalfValue(h)
  <2>1. N \in 1 .. N
    BY <1>1
  <2>2. Insts[N] = MacBatch
    BY <1>1, ProverWalk
  <2>3. Insts[N].label = "mac"
    BY <2>2 DEF MacBatch, Instance
  <2>4. \A h \in 1 .. MacHalfCount : seen.mac[h] = TakenAt(N)[4 + h]
    BY <2>1, <2>3, AcceptingFacts DEF Passed, KeptOf
  <2>5. \A h \in 1 .. MacHalfCount : TakenAt(N)[4 + h] = HalfValue(h)
    BY <2>1, <2>3, MacHeld
  <2> QED BY <2>4, <2>5 DEF MacHalfCount
<1>3. seen.z = CellValue(0, "c3", "z")
  <2> DEFINE j == 6 * 0 + 3
  <2>1. 0 \in 0 .. n - 1 /\ 3 \in 1 .. 6
    BY <1>1
  <2>2. j \in 1 .. N /\ Insts[j].label = "c3" /\ Insts[j].signer = 0 /\ Insts[j].label # "mac"
    BY <2>1, FamilyInstance, FamilyLabels
  <2> HIDE DEF j
  <2>3. RoleNames(mode, Insts[j]) = <<"z">> /\ PrivateNames(mode, Insts[j]) = <<"z">>
    BY <1>1, <2>2 DEF RoleNames, PrivateNames
  <2>4. Len(<<"z">>) = 1 /\ <<"z">>[1] = "z" /\ <<"z">> # <<>>
    BY Tuple1
  <2>5. SentCounts[j] = 1
    BY <2>2, <2>3, <2>4 DEF SentCounts
  <2>6. 1 \in 1 .. SentCounts[j]
    BY <2>5
  <2>7. TakenAt(j)[1] = CellValue(0, "c3", "z")
    BY <2>2, <2>3, <2>4, <2>6, PrivateHeld
  <2>8. Passed(j)
    BY <2>2, AcceptingFacts
  <2> QED BY <2>2, <2>3, <2>4, <2>7, <2>8 DEF Passed, KeptOf
<1>4. seen.qx = CellValue(1, "c2", "qx") /\ seen.qy = CellValue(1, "c2", "qy")
  <2> DEFINE j == 6 * 1 + 2
  <2>1. 1 \in 0 .. n - 1 /\ 2 \in 1 .. 6
    BY <1>1
  <2>2. j \in 1 .. N /\ Insts[j].label = "c2" /\ Insts[j].signer = 1 /\ Insts[j].label # "mac"
    BY <2>1, FamilyInstance, FamilyLabels
  <2> HIDE DEF j
  <2>3. RoleNames(mode, Insts[j]) = <<"qx", "qy">> /\ PrivateNames(mode, Insts[j]) = <<"qx", "qy">>
    BY <1>1, <2>2 DEF RoleNames, PrivateNames
  <2>4. Len(<<"qx", "qy">>) = 2 /\ <<"qx", "qy">>[1] = "qx" /\ <<"qx", "qy">>[2] = "qy"
        /\ <<"qx", "qy">> # <<>>
    BY Tuple2
  <2>5. SentCounts[j] = 2
    BY <2>2, <2>3, <2>4 DEF SentCounts
  <2>6. 1 \in 1 .. SentCounts[j] /\ 2 \in 1 .. SentCounts[j]
    BY <2>5
  <2>7. TakenAt(j)[1] = CellValue(1, "c2", "qx") /\ TakenAt(j)[2] = CellValue(1, "c2", "qy")
    BY <2>2, <2>3, <2>4, <2>6, PrivateHeld
  <2>8. Passed(j)
    BY <2>2, AcceptingFacts
  <2> QED BY <2>2, <2>3, <2>4, <2>7, <2>8 DEF Passed, KeptOf
<1>5. /\ Half[1][1] = 0 /\ Half[1][2] = "z" /\ Half[3][1] = 1 /\ Half[3][2] = "qx"
      /\ Half[5][1] = 1 /\ Half[5][2] = "qy"
  BY DEF Half
<1>6. /\ Recompose(HalfValue(1), HalfValue(2)) = CellValue(0, "c3", "z")
      /\ Recompose(HalfValue(3), HalfValue(4)) = CellValue(1, "c2", "qx")
      /\ Recompose(HalfValue(5), HalfValue(6)) = CellValue(1, "c2", "qy")
  <2>1. /\ Recompose(seen.mac[1], seen.mac[2]) = seen.z
        /\ Recompose(seen.mac[3], seen.mac[4]) = seen.qx
        /\ Recompose(seen.mac[5], seen.mac[6]) = seen.qy
    BY <1>1 DEF MacAgrees
  <2>2. /\ seen.mac[1] = HalfValue(1) /\ seen.mac[2] = HalfValue(2)
        /\ seen.mac[3] = HalfValue(3) /\ seen.mac[4] = HalfValue(4)
        /\ seen.mac[5] = HalfValue(5) /\ seen.mac[6] = HalfValue(6)
    BY <1>2
  <2> QED BY <1>3, <1>4, <2>1, <2>2
<1>7. ASSUME NEW h \in {1, 3, 5}
      PROVE  Recompose(HalfValue(h), HalfValue(h + 1))
                = CellValue(Half[h][1], IF h = 1 THEN "c3" ELSE "c2", Half[h][2])
  <2>1. CASE h = 1
    BY <1>5, <1>6, <2>1
  <2>2. CASE h = 3
    BY <1>5, <1>6, <2>2
  <2>3. CASE h = 5
    BY <1>5, <1>6, <2>3
  <2> QED BY <2>1, <2>2, <2>3
<1> QED BY <1>7

(* The code of a committed value is none that a fault writes. *)
LEMMA ChangedValueDiffers ==
    ASSUME NEW signer, NEW label, NEW name
    PROVE  CellValue(signer, label, name) # Value(0, "ax", 4)
<1> DEFINE v == CellValue(signer, label, name)
<1>1. v = <<"value", signer, name, IF <<signer, label, name>> \in case.deviation THEN 3 ELSE 0>>
  BY DEF CellValue, Value
<1>2. v[4] # 4
  BY <1>1
<1>3. Value(0, "ax", 4)[4] = 4
  BY DEF Value
<1> QED BY <1>2, <1>3

(* The faults that only the walk itself finds. *)
LEMMA ValuesAccepted ==
    ASSUME Accepting
    PROVE  /\ Len(bundle.values) # Mark[N + 1] - 1 /\ Len(bundle.values) # Mark[N + 1] + 1
           /\ bundle.values[7] # Value(0, "ax", 4)
<1>1. case \in Cases /\ N \in Nat /\ N >= 6
  BY AcceptingFacts
<1>2. cursor = Len(bundle.values) /\ cursor = Mark[at] /\ at = N + 1
  BY DEF Accepting, InInstances
<1>3. /\ Mark[4] \in {0, 1} /\ Mark[5] = Mark[4] + 6
      /\ SentCounts[4] = 6 /\ SentCounts[5] = 6
  BY <1>1, FirstMarks
<1>4. Mark[N + 1] \in Nat
  <2>1. N + 1 \in 1 .. N + 1
    BY <1>1
  <2> QED BY <1>1, <2>1, MarkSteps
<1>5. Len(bundle.values) # Mark[N + 1] - 1 /\ Len(bundle.values) # Mark[N + 1] + 1
  BY <1>2, <1>4
<1>6. bundle.values[7] # Value(0, "ax", 4)
  <2>1. ASSUME NEW f \in {4, 5}
        PROVE  f \in 1 .. N /\ Insts[f].label # "mac"
    <3>1. 0 \in 0 .. Len(case.prover.projections) - 1 /\ f \in 1 .. 6
      BY AcceptingFacts
    <3>2. 6 * 0 + f \in 1 .. N /\ Insts[6 * 0 + f].label # "mac"
      BY <3>1, FamilyInstance
    <3>3. 6 * 0 + f = f
      OBVIOUS
    <3> QED BY <3>2, <3>3
  <2>2. ASSUME NEW f \in {4, 5}, NEW i \in 1 .. 6
        PROVE  TakenAt(f)[i] # Value(0, "ax", 4)
    <3>1. f \in 1 .. N /\ Insts[f].label # "mac" /\ i \in 1 .. SentCounts[f]
      BY <1>3, <2>1
    <3>2. TakenAt(f)[i] = CellValue(Insts[f].signer, Insts[f].label,
                                    PrivateNames(case.prover.mode, Insts[f])[i])
      BY <3>1, PrivateHeld
    <3> QED BY <3>2, ChangedValueDiffers
  <2>3. CASE Mark[4] = 0
    <3>1. TakenAt(5) = SubSeq(bundle.values, 7, 12)
      BY <1>3, <2>3 DEF TakenAt
    <3>2. \A i \in 1 .. 12 - 7 + 1 : SubSeq(bundle.values, 7, 12)[i] = bundle.values[7 + i - 1]
      BY Cut
    <3>3. TakenAt(5)[1] = bundle.values[7]
      BY <3>1, <3>2
    <3> QED BY <2>2, <3>3
  <2>4. CASE Mark[4] = 1
    <3>1. TakenAt(4) = SubSeq(bundle.values, 2, 7)
      BY <1>3, <2>4 DEF TakenAt
    <3>2. \A i \in 1 .. 7 - 2 + 1 : SubSeq(bundle.values, 2, 7)[i] = bundle.values[2 + i - 1]
      BY Cut
    <3>3. TakenAt(4)[6] = bundle.values[7]
      BY <3>1, <3>2
    <3> QED BY <2>2, <3>3
  <2> QED BY <1>3, <2>3, <2>4
<1> QED BY <1>5, <1>6

LEMMA EntriesAccepted ==
    ASSUME Accepting, Len(case.prover.projections) >= 2
    PROVE  bundle.entries[1].channel # Channels[7]
<1>1. 0 \in 0 .. Len(case.prover.projections) - 1 /\ 1 \in 0 .. Len(case.prover.projections) - 1
  BY AcceptingFacts
<1>0. ASSUME NEW s \in {0, 1}
      PROVE  LET j == 6 * s + 1
             IN  j \in 1 .. N /\ Insts[j].label # "mac" /\ Insts[j].signer = s
  <2>1. s \in 0 .. Len(case.prover.projections) - 1 /\ 1 \in 1 .. 6
    BY <1>1
  <2> QED BY <2>1, FamilyInstance
<1>2. 1 \in 1 .. N /\ Insts[1].label # "mac" /\ Insts[1].signer = 0
  BY <1>0
<1>3. 7 \in 1 .. N /\ Insts[7].label # "mac" /\ Insts[7].signer = 1
  BY <1>0
<1>4. Channels[7][2] = 1
  <2>1. Channels[7] = InstanceChannel(Insts[7], case.prover, Root, Av, TagsMade)
    BY <1>3 DEF Channels
  <2> QED BY <1>3, <2>1 DEF InstanceChannel
<1>5. bundle.entries[1].channel[2] = 0
  <2>1. Passed(1)
    BY <1>2, AcceptingFacts
  <2> QED BY <1>2, <2>1 DEF Passed, Channeled, InstanceChannel
<1> QED BY <1>4, <1>5

LEMMA UndamagedAccepted ==
    ASSUME Accepting
    PROVE  case.fault = "none"
<1>1. case \in Cases /\ Delivered /\ Agreed /\ case.fault \in Faults
  BY AcceptingFacts, Zenon
<1>2. case.fault # "value lost" /\ case.fault # "value added" /\ case.fault # "value changed"
  BY <1>1, ValuesAccepted, Zenon DEF Delivered
<1>3. case.fault # "entries swapped"
  BY <1>1, CaseFacts, EntriesAccepted, Zenon DEF Delivered
<1>4. case.fault \notin MdocFaults \cup {"params", "entry lost", "indices"}
  BY <1>1, Zenon DEF Agreed
<1> QED BY <1>1, <1>2, <1>3, <1>4, Zenon DEF Faults

LEMMA IntendedCall ==
    ASSUME Accepting
    PROVE  case.verifier = case.prover
<1> DEFINE p == case.prover.projections
           q == case.verifier.projections
<1>1. /\ IsCall(case.prover) /\ IsCall(case.verifier) /\ Len(q) = Len(p) /\ Delivered
      /\ Len(p) \in Nat /\ N \in Nat
  BY AcceptingFacts DEF Expected
<1>2. case.verifier.mode = case.prover.mode /\ case.verifier.seed = case.prover.seed
  BY AcceptingFacts DEF Agreed, Expected
<1>3. ASSUME NEW i \in 1 .. Len(p)
      PROVE  q[i] = p[i]
  <2> DEFINE s == i - 1
             j == 6 * s + 1
  <2>1. s \in 0 .. Len(case.prover.projections) - 1 /\ s + 1 = i /\ 1 \in 1 .. 6
    BY <1>1
  <2> HIDE DEF s
  <2>2. j \in 1 .. N /\ Insts[j].label # "mac" /\ Insts[j].signer = s
    BY <2>1, FamilyInstance
  <2> HIDE DEF j
  <2>3. bundle.entries[j].channel = Channels[j]
    <3>1. case.fault = "none"
      BY UndamagedAccepted
    <3> QED BY <1>1, <2>2, <3>1 DEF Delivered
  <2>4. Channels[j] = InstanceChannel(Insts[j], case.prover, Root, Av, TagsMade)
    BY <2>2 DEF Channels
  <2>5. bundle.entries[j].channel = InstanceChannel(Insts[j], case.verifier, Root, Av, TagsMade)
    BY <2>2, AcceptingFacts DEF Passed, Channeled, Expected
  <2>6. /\ InstanceChannel(Insts[j], case.prover, Root, Av, TagsMade)[4] = p[s + 1]
        /\ InstanceChannel(Insts[j], case.verifier, Root, Av, TagsMade)[4] = q[s + 1]
    BY <2>2 DEF InstanceChannel
  <2> QED BY <2>1, <2>3, <2>4, <2>5, <2>6
<1>4. q = p
  <2>1. p \in Seq([PublicFields -> Int]) /\ q \in Seq([PublicFields -> Int])
    BY <1>1 DEF IsCall
  <2> HIDE DEF p, q
  <2>2. IsSequence(p) /\ IsSequence(q)
    BY <2>1, InIsSequence
  <2> QED BY <1>1, <1>3, <2>2, SameSequence
<1>5. /\ case.prover = [mode |-> case.prover.mode, projections |-> p, seed |-> case.prover.seed]
      /\ case.verifier = [mode |-> case.verifier.mode, projections |-> q,
                          seed |-> case.verifier.seed]
  BY <1>1 DEF IsCall
<1> QED BY <1>2, <1>4, <1>5

LEMMA TagsAccepted ==
    ASSUME Accepting, Expected.mode = "mdoc"
    PROVE  \A h \in 1 .. MacHalfCount :
                bundle.tags[h] = Tag(h, DrawAv(Expected.seed, bundle.rootA), HalfValue(h))
<1>1. case.fault = "none" /\ Delivered /\ Agreed
  BY UndamagedAccepted, AcceptingFacts, Zenon
<1>2. bundle.tags = TagsMade /\ bundle.rootA = RootA
  <2>1. case.fault # "tag lost"
    BY <1>1
  <2> QED BY <1>1, <2>1, Zenon DEF Delivered
<1>3. Expected.seed = case.prover.seed /\ IsMdoc
  BY <1>1, Zenon DEF Agreed, IsMdoc
<1>4. DrawAv(Expected.seed, bundle.rootA) = Av
  BY <1>2, <1>3, Zenon DEF Av
<1>5. TagsMade = [h \in 1 .. MacHalfCount |-> Tag(h, Av, HalfValue(h))]
  BY <1>3, Zenon DEF TagsMade
<1> QED BY <1>2, <1>4, <1>5

(* Cells and what is expected depend on the case alone. *)
LEMMA CellsKept ==
    ASSUME case' = case
    PROVE  /\ Expected' = Expected
           /\ \A s, label, name : CellValue(s, label, name)' = CellValue(s, label, name)
           /\ \A h : HalfValue(h)' = HalfValue(h)
BY DEF Expected, CellValue, HalfValue

LEMMA AcceptedBinds ==
    ASSUME Accepting, case' = case, bundle' = bundle
    PROVE  Bound'
<1>1. AcceptedIsIntended'
  BY IntendedCall, UndamagedAccepted, Zenon DEF AcceptedIsIntended
<1>2. DOMAIN Expected.projections = 1 .. Len(case.prover.projections)
      /\ Len(case.prover.projections) \in Nat
  BY AcceptingFacts
<1>3. AcceptedIsOnePoint'
  <2>1. ASSUME NEW i \in DOMAIN Expected.projections
        PROVE  /\ \A name \in {"ax", "ay", "bx", "by", "ry"} :
                        Together(i - 1, name, {"c11", "c12"})'
               /\ Together(i - 1, "rx", {"c11", "c12", "c14"})'
    <3>1. i - 1 \in 0 .. Len(case.prover.projections) - 1
      BY <1>2
    <3>2. /\ \A name \in {"ax", "ay", "bx", "by", "ry"} : Together(i - 1, name, {"c11", "c12"})
          /\ Together(i - 1, "rx", {"c11", "c12", "c14"})
      BY <3>1, OnePointAccepted
    <3> DEFINE s == i - 1
    <3> HIDE DEF s
    <3>3. /\ \A name \in {"ax", "ay", "bx", "by", "ry"} : Together(s, name, {"c11", "c12"})
          /\ Together(s, "rx", {"c11", "c12", "c14"})
      BY <3>2 DEF s
    <3>4. /\ \A name \in {"ax", "ay", "bx", "by", "ry"} : Together(i - 1, name, {"c11", "c12"})'
          /\ Together(i - 1, "rx", {"c11", "c12", "c14"})'
      BY <3>3, CellsKept DEF Together, s
    <3> QED BY <3>4
  <2> QED BY <2>1, CellsKept DEF AcceptedIsOnePoint
<1>4. AcceptedIsPublished'
  <2>1. \A i \in DOMAIN Expected.projections : \A label \in {"c1", "c2", "c3", "c14"} :
            \A name \in PublicNames(label) :
                Expected.projections[i][name] # None =>
                    CellValue(i - 1, label, name)
                        = Value(i - 1, name, Expected.projections[i][name])
    BY PublishedAccepted
  <2> QED BY <2>1, CellsKept DEF AcceptedIsPublished
<1>5. AcceptedMacIsOverSigned'
  <2>1. Expected.mode = "mdoc" =>
            \A h \in 1 .. MacHalfCount :
                bundle.tags[h] = Tag(h, DrawAv(Expected.seed, bundle.rootA), HalfValue(h))
    BY TagsAccepted
  <2>2. Expected.mode = "mdoc" =>
            \A h \in {1, 3, 5} :
                Recompose(HalfValue(h), HalfValue(h + 1))
                    = CellValue(Half[h][1], IF h = 1 THEN "c3" ELSE "c2", Half[h][2])
    BY MacAccepted
  <2> QED BY <2>1, <2>2, CellsKept DEF AcceptedMacIsOverSigned
<1> QED BY <1>1, <1>3, <1>4, <1>5 DEF Bound

LEMMA ConcludeKeeps ==
    ASSUME Shaped, InInstances, Conclude
    PROVE  IInv'
<1> DEFINE clash == \/ \E i \in DOMAIN seen.signers : ~FamiliesAgree(seen.signers[i])
                    \/ Expected.mode = "mdoc" /\ ~MacAgrees
           verdict == IF cursor # Len(bundle.values) THEN "InputClaimOpeningRejected"
                      ELSE IF clash THEN "CrossFamilyBindingRejected"
                      ELSE IF ~BatchHolds THEN "InputClaimOpeningRejected" ELSE "accepted"
<1>1. Answer(verdict) /\ at > Len(VerifierInsts)
  BY DEF Conclude
<1>2. at = N + 1
  <2>1. case \in Cases /\ Agreed /\ at \in Nat \ {0} /\ at <= N + 1
    BY DEF Shaped, InInstances
  <2>2. N \in Nat
    BY <2>1, CaseFacts
  <2>3. Len(VerifierInsts) = N
    BY <2>1, Zenon DEF Agreed, N
  <2> QED BY <1>1, <2>1, <2>2, <2>3
<1> HIDE DEF verdict
<1>3. CASE verdict # "accepted"
  BY <1>1, <1>3, RefusalKeeps
<1>4. CASE verdict = "accepted"
  <2>1. cursor = Len(bundle.values) /\ ~clash /\ BatchHolds
    BY <1>4 DEF verdict
  <2>2. Accepting
    BY <1>2, <2>1 DEF Accepting
  <2>3. /\ case' = case /\ at' = at /\ layouts' = layouts /\ bundle' = bundle
        /\ phase' = "answered"
    BY <1>1 DEF Answer
  <2>4. Bound'
    BY <2>2, <2>3, AcceptedBinds
  <2>5. Shaped'
    BY <2>3 DEF Shaped
  <2> QED BY <2>3, <2>4, <2>5 DEF IInv, InAnswered
<1> QED BY <1>3, <1>4

LEMMA StutterKeeps ==
    ASSUME IInv, UNCHANGED vars
    PROVE  IInv'
<1>1. /\ case' = case /\ phase' = phase /\ at' = at /\ layouts' = layouts /\ bundle' = bundle
      /\ claims' = claims /\ cursor' = cursor /\ seen' = seen /\ outcome' = outcome
  BY DEF vars
<1>2. /\ Insts' = Insts /\ N' = N /\ IsMdoc' = IsMdoc /\ Inputs' = Inputs
      /\ SentCounts' = SentCounts /\ Mark' = Mark /\ Place' = Place /\ LayoutAt' = LayoutAt
      /\ RootA' = RootA /\ Av' = Av /\ RootB' = RootB /\ Root' = Root
      /\ TagsMade' = TagsMade /\ Channels' = Channels
      /\ Expected' = Expected /\ VerifierInsts' = VerifierInsts
  BY <1>1, CaseKept
<1>3. Shaped'
  BY <1>1 DEF IInv, Shaped
<1>4. /\ \A c : LaidOut(c)' = LaidOut(c)
      /\ \A c : Proved(c)' = Proved(c)
      /\ \A c : Sent(c)' = Sent(c)
      /\ Fresh' = Fresh /\ Rooted' = Rooted /\ Opened' = Opened
  BY <1>1, <1>2 DEF LaidOut, Proved, Sent, Fresh, Rooted, Opened
<1>5. (InLayout => InLayout') /\ (InProximity => InProximity') /\ (InSumcheck => InSumcheck')
      /\ (InClaims => InClaims') /\ (InSent => InSent')
  BY <1>1, <1>2, <1>4 DEF InLayout, InProximity, InSumcheck, InClaims, InSent
<1>6. (Delivered => Delivered') /\ (Agreed => Agreed')
  BY <1>1, DeliveredStays, AgreedStays
<1>7. InSetup => InSetup'
  BY <1>1, <1>2, <1>4, <1>6 DEF InSetup
<1>8. (SeenShaped => SeenShaped') /\ SetupVerdict' = SetupVerdict
      /\ \A c : ExpectedLaidOut(c)' = ExpectedLaidOut(c)
  BY <1>1, <1>2 DEF SeenShaped, SetupVerdict, ExpectedLaidOut
<1>9. InShapes => InShapes'
  BY <1>1, <1>2, <1>4, <1>6, <1>8 DEF InShapes
<1>10. ASSUME NEW j
       PROVE  Passed(j) => Passed(j)'
  <2>1. \A i : TakenAt(i)' = TakenAt(i)
    BY <1>1, <1>2 DEF TakenAt
  <2>2. Channeled(j) => Channeled(j)'
    BY <1>1, <1>2 DEF Channeled
  <2>3. PublicClaimed(j) => PublicClaimed(j)'
    BY <1>1, <1>2 DEF PublicClaimed
  <2>4. PrivateClaimed(j) => PrivateClaimed(j)'
    BY <1>1, <1>2, <2>1 DEF PrivateClaimed
  <2>5. MacClaimed(j) => MacClaimed(j)'
    BY <1>1, <1>2, <2>1 DEF MacClaimed
  <2>6. KeptOf(j) => KeptOf(j)'
    BY <1>1, <1>2, <2>1 DEF KeptOf
  <2> QED BY <2>2, <2>3, <2>4, <2>5, <2>6 DEF Passed
<1>11. InInstances => InInstances'
  <2>1. LaidOut(N) => LaidOut(N)'
    BY <1>1, DeliveredStays
  <2> QED BY <1>1, <1>2, <1>6, <1>8, <1>10, <2>1 DEF InInstances
<1>12. Bound => Bound'
  <2>1. (AcceptedIsIntended => AcceptedIsIntended') /\ (AcceptedIsOnePoint => AcceptedIsOnePoint')
    BY <1>1, CellsKept DEF AcceptedIsIntended, AcceptedIsOnePoint, Together
  <2>2. AcceptedIsPublished => AcceptedIsPublished'
    BY <1>1, CellsKept DEF AcceptedIsPublished
  <2>3. AcceptedMacIsOverSigned => AcceptedMacIsOverSigned'
    BY <1>1, CellsKept DEF AcceptedMacIsOverSigned
  <2> QED BY <2>1, <2>2, <2>3 DEF Bound
<1>13. InAnswered => InAnswered'
  BY <1>1, <1>12 DEF InAnswered
<1> QED BY <1>3, <1>5, <1>7, <1>9, <1>11, <1>13 DEF IInv

-----------------------------------------------------------------------------
(* The invariant, and what it gives.                                       *)

LEMMA Preserved == IInv /\ [Next]_vars => IInv'
<1> SUFFICES ASSUME IInv, [Next]_vars PROVE IInv'
  OBVIOUS
<1>1. Shaped
  BY DEF IInv
<1>2. CASE LayOut
  <2>1. InLayout
    BY <1>2 DEF LayOut, IInv, InLayout, InProximity, InSumcheck, InClaims, InSent, InSetup,
                InShapes, InInstances, InAnswered
  <2> QED BY <1>1, <1>2, <2>1, LayOutKeeps
<1>3. CASE Commit
  <2>1. InLayout
    BY <1>3 DEF Commit, IInv, InLayout, InProximity, InSumcheck, InClaims, InSent, InSetup,
                InShapes, InInstances, InAnswered
  <2> QED BY <1>1, <1>3, <2>1, CommitKeeps
<1>4. CASE Proximity
  <2>1. InProximity
    BY <1>4 DEF Proximity, IInv, InLayout, InProximity, InSumcheck, InClaims, InSent, InSetup,
                InShapes, InInstances, InAnswered
  <2> QED BY <1>1, <1>4, <2>1, ProximityKeeps
<1>5. CASE ProveInstance
  <2>1. InSumcheck
    BY <1>5 DEF ProveInstance, IInv, InLayout, InProximity, InSumcheck, InClaims, InSent,
                InSetup, InShapes, InInstances, InAnswered
  <2> QED BY <1>1, <1>5, <2>1, ProveInstanceKeeps
<1>6. CASE StartClaims
  <2>1. InSumcheck
    BY <1>6 DEF StartClaims, IInv, InLayout, InProximity, InSumcheck, InClaims, InSent,
                InSetup, InShapes, InInstances, InAnswered
  <2> QED BY <1>1, <1>6, <2>1, StartClaimsKeeps
<1>7. CASE ClaimInstance
  <2>1. InClaims
    BY <1>7 DEF ClaimInstance, IInv, InLayout, InProximity, InSumcheck, InClaims, InSent,
                InSetup, InShapes, InInstances, InAnswered
  <2> QED BY <1>1, <1>7, <2>1, ClaimInstanceKeeps
<1>8. CASE Batch
  <2>1. InClaims
    BY <1>8 DEF Batch, IInv, InLayout, InProximity, InSumcheck, InClaims, InSent, InSetup,
                InShapes, InInstances, InAnswered
  <2> QED BY <1>1, <1>8, <2>1, BatchKeeps
<1>9. CASE Deliver
  <2>1. InSent
    BY <1>9 DEF Deliver, IInv, InLayout, InProximity, InSumcheck, InClaims, InSent, InSetup,
                InShapes, InInstances, InAnswered
  <2> QED BY <1>1, <1>9, <2>1, DeliverKeeps
<1>10. CASE Setup
  <2>1. InSetup
    BY <1>10 DEF Setup, IInv, InLayout, InProximity, InSumcheck, InClaims, InSent, InSetup,
                 InShapes, InInstances, InAnswered
  <2> QED BY <1>1, <1>10, <2>1, SetupKeeps
<1>11. CASE LayOutExpected
  <2>1. InShapes
    BY <1>11 DEF LayOutExpected, IInv, InLayout, InProximity, InSumcheck, InClaims, InSent,
                 InSetup, InShapes, InInstances, InAnswered
  <2> QED BY <1>1, <1>11, <2>1, LayOutExpectedKeeps
<1>12. CASE CheckOpenings
  <2>1. InShapes
    BY <1>12 DEF CheckOpenings, IInv, InLayout, InProximity, InSumcheck, InClaims, InSent,
                 InSetup, InShapes, InInstances, InAnswered
  <2> QED BY <1>1, <1>12, <2>1, CheckOpeningsKeeps
<1>13. CASE VerifyInstance
  <2>1. InInstances
    BY <1>13 DEF VerifyInstance, IInv, InLayout, InProximity, InSumcheck, InClaims, InSent,
                 InSetup, InShapes, InInstances, InAnswered
  <2> QED BY <1>1, <1>13, <2>1, VerifyInstanceKeeps
<1>14. CASE Conclude
  <2>1. InInstances
    BY <1>14 DEF Conclude, IInv, InLayout, InProximity, InSumcheck, InClaims, InSent, InSetup,
                 InShapes, InInstances, InAnswered
  <2> QED BY <1>1, <1>14, <2>1, ConcludeKeeps
<1>15. CASE Answered \/ UNCHANGED vars
  BY <1>15, StutterKeeps DEF Answered
<1> QED BY <1>2, <1>3, <1>4, <1>5, <1>6, <1>7, <1>8, <1>9, <1>10, <1>11, <1>12, <1>13, <1>14,
           <1>15 DEF Next

(* The invariant holds of every state of the bundle's life: in each phase, the
   instances that its loop has passed are laid out, proved, claimed and walked
   alike by both sides. *)
THEOREM Invariance == Spec => []IInv
BY Starts, Preserved, PTL DEF Spec

LEMMA Binds == IInv => Bound
<1> SUFFICES ASSUME IInv PROVE Bound
  OBVIOUS
<1>1. CASE phase = "answered"
  BY <1>1 DEF IInv, InLayout, InProximity, InSumcheck, InClaims, InSent, InSetup, InShapes,
              InInstances, InAnswered
<1>2. CASE phase # "answered"
  <2>1. outcome # "accepted"
    BY <1>2 DEF IInv, Shaped
  <2> QED BY <2>1 DEF Bound, AcceptedIsIntended, AcceptedIsOnePoint, AcceptedIsPublished,
                      AcceptedMacIsOverSigned
<1> QED BY <1>1, <1>2

(* An accepted bundle was made for the verifier's own call and came undamaged:
   mode, seed and every signature's projection are those that the prover's
   transcripts absorbed, and neither a lost or swapped proof nor a lost, added or
   changed consistency value goes unnoticed. *)
THEOREM IntendedAccepted == Spec => []AcceptedIsIntended
<1>1. IInv => AcceptedIsIntended
  BY Binds DEF Bound
<1> QED BY <1>1, Invariance, PTL

(* Whatever was put into the cells, the families of an accepted signature hold
   one final point and one pair of operands: the sent consistency values tie
   each family's committed cells to the others'. *)
THEOREM OnePoint == Spec => []AcceptedIsOnePoint
<1>1. IInv => AcceptedIsOnePoint
  BY Binds DEF Bound
<1> QED BY <1>1, Invariance, PTL

(* Each value that the verifier's projection publishes is the committed one in
   every family that reads it, for any number of signatures. *)
THEOREM Published == Spec => []AcceptedIsPublished
<1>1. IInv => AcceptedIsPublished
  BY Binds DEF Bound
<1> QED BY <1>1, Invariance, PTL

(* The tags of an accepted mdoc bundle are under the share drawn from its first
   root, over the halves of the hash that the issuer signed and of the key that
   the device signs with. *)
THEOREM MacOverSigned == Spec => []AcceptedMacIsOverSigned
<1>1. IInv => AcceptedMacIsOverSigned
  BY Binds DEF Bound
<1> QED BY <1>1, Invariance, PTL

-----------------------------------------------------------------------------
(* Sequences strung together: part j begins after the first m[j] elements. *)

Strung(s, parts, m, count) ==
    /\ IsSequence(s) /\ Len(s) = m[count + 1]
    /\ \A j \in 1 .. count : \A i \in 1 .. Len(parts[j]) : s[m[j] + i] = parts[j][i]

Parted(parts, counts, n, m) ==
    /\ n \in Nat /\ counts \in [1 .. n -> Nat] /\ Totals(counts, n, m)
    /\ \A j \in 1 .. n : IsSequence(parts[j]) /\ Len(parts[j]) = counts[j]

LEMMA PartedFacts ==
    ASSUME NEW parts, NEW counts, NEW n, NEW m, Parted(parts, counts, n, m), NEW j \in 1 .. n
    PROVE  /\ n \in Nat /\ m[1] = 0 /\ m[j] \in Nat /\ m[j + 1] \in Nat /\ counts[j] \in Nat
           /\ m[j + 1] = m[j] + counts[j] /\ Len(parts[j]) = counts[j] /\ IsSequence(parts[j])
           /\ \A k \in j + 1 .. n + 1 : m[j + 1] <= m[k] /\ m[k] \in Nat
<1>1. n \in Nat /\ counts \in [1 .. n -> Nat] /\ Totals(counts, n, m)
  BY DEF Parted
<1>2. /\ m \in [1 .. n + 1 -> Nat] /\ m[1] = 0
      /\ m[j + 1] = m[j] + counts[j]
  BY <1>1 DEF Totals
<1>3. j \in 1 .. n + 1 /\ j + 1 \in 1 .. n + 1
  BY <1>1
<1>4. \A k \in j + 1 .. n + 1 : m[j + 1] <= m[k] /\ m[k] \in Nat
  <2>1. \A k \in j + 1 .. n + 1 : m[j + 1] <= m[k]
    BY <1>1, <1>3, TotalsGrow
  <2>2. \A k \in j + 1 .. n + 1 : k \in 1 .. n + 1
    BY <1>1
  <2> QED BY <1>2, <2>1, <2>2
<1>5. Len(parts[j]) = counts[j] /\ IsSequence(parts[j])
  BY DEF Parted
<1> QED BY <1>1, <1>2, <1>3, <1>4, <1>5

(* The next part appended. *)
LEMMA StrungGrows ==
    ASSUME NEW parts, NEW counts, NEW n, NEW m, Parted(parts, counts, n, m),
           NEW c \in 1 .. n, NEW s, Strung(s, parts, m, c - 1)
    PROVE  Strung(s \o parts[c], parts, m, c)
<1> DEFINE u == parts[c]
           t == s \o u
<1>1. /\ n \in Nat /\ m[c] \in Nat /\ counts[c] \in Nat /\ m[c + 1] = m[c] + counts[c]
      /\ Len(u) = counts[c] /\ IsSequence(u)
  BY PartedFacts
<1>2. IsSequence(s) /\ Len(s) = m[c]
  <2>1. (c - 1) + 1 = c
    BY <1>1
  <2> QED BY <2>1 DEF Strung
<1>3. IsSequence(u) /\ IsSequence(s)
  BY <1>1, <1>2
<1> HIDE DEF u
<1>4. /\ IsSequence(t) /\ Len(t) = Len(s) + Len(u)
      /\ \A i \in 1 .. Len(s) : t[i] = s[i]
      /\ \A i \in 1 .. Len(u) : t[Len(s) + i] = u[i]
  BY <1>3, Joined
<1> HIDE DEF t
<1>5. Len(t) = m[c + 1]
  BY <1>1, <1>2, <1>4
<1>6. ASSUME NEW j \in 1 .. c, NEW i \in 1 .. Len(parts[j])
      PROVE  t[m[j] + i] = parts[j][i]
  <2>1. CASE j = c
    <3>1. parts[j] = u /\ m[j] = Len(s)
      BY <1>2, <2>1 DEF u
    <3>2. i \in 1 .. Len(u)
      BY <3>1
    <3>3. t[Len(s) + i] = u[i]
      BY <1>4, <3>2
    <3> QED BY <3>1, <3>3
  <2>2. CASE j # c
    <3>1. j \in 1 .. c - 1 /\ j \in 1 .. n /\ c \in j + 1 .. n + 1
      BY <1>1, <2>2
    <3>2. /\ m[j] \in Nat /\ counts[j] \in Nat /\ Len(parts[j]) = counts[j]
          /\ m[j + 1] = m[j] + counts[j] /\ m[j + 1] <= m[c]
      BY <3>1, PartedFacts
    <3>3. i \in 1 .. counts[j]
      BY <3>2
    <3>4. m[j] + i \in 1 .. Len(s)
      <4> DEFINE a == m[j]
                 b == counts[j]
                 d == m[j + 1]
                 e == m[c]
      <4>1. a \in Nat /\ b \in Nat /\ d = a + b /\ d <= e /\ e \in Nat /\ Len(s) = e /\ i \in 1 .. b
        BY <1>1, <1>2, <3>2, <3>3
      <4> HIDE DEF a, b, d, e
      <4>2. a + i \in 1 .. e
        BY <4>1
      <4> QED BY <4>1, <4>2 DEF a
    <3>5. s[m[j] + i] = parts[j][i]
      BY <3>1 DEF Strung
    <3> QED BY <1>4, <3>4, <3>5
  <2> QED BY <2>1, <2>2
<1> QED BY <1>4, <1>5, <1>6 DEF Strung, t, u

(* Every element belongs to a part. *)
LEMMA StrungElement ==
    ASSUME NEW parts, NEW counts, NEW n, NEW m, Parted(parts, counts, n, m),
           NEW s, Strung(s, parts, m, n), NEW k \in 1 .. Len(s)
    PROVE  \E j \in 1 .. n : \E i \in 1 .. Len(parts[j]) : k = m[j] + i /\ s[k] = parts[j][i]
<1>1. n \in Nat /\ counts \in [1 .. n -> Nat] /\ Totals(counts, n, m)
  BY DEF Parted
<1>2. /\ m \in [1 .. n + 1 -> Nat] /\ m[1] = 0
  BY <1>1 DEF Totals
<1> DEFINE S == {j \in 1 .. n + 1 : k <= m[j]}
<1>3. Len(s) = m[n + 1] /\ n + 1 \in 1 .. n + 1 /\ m[n + 1] \in Nat
  BY <1>1, <1>2 DEF Strung
<1>4. k \in Int /\ 1 <= k /\ k <= m[n + 1]
  BY <1>3
<1>5. S # {} /\ S \in SUBSET Nat
  BY <1>3, <1>4
<1>6. PICK x \in S : \A y \in S : ~(y < x)
  BY <1>5, LeastElement
<1>7. x \in 1 .. n + 1 /\ k <= m[x] /\ x # 1
  BY <1>2, <1>4, <1>6
<1> DEFINE j == x - 1
<1>8. j \in 1 .. n /\ j \in 1 .. n + 1 /\ j < x /\ j + 1 = x
  BY <1>1, <1>7
<1>9. ~(k <= m[j])
  BY <1>6, <1>8
<1> HIDE DEF j
<1>10. /\ m[j] \in Nat /\ counts[j] \in Nat /\ Len(parts[j]) = counts[j]
       /\ m[j + 1] = m[j] + counts[j]
  BY <1>8, PartedFacts
<1> DEFINE i == k - m[j]
<1>11. i \in 1 .. Len(parts[j]) /\ k = m[j] + i
  <2> DEFINE a == m[j]
             b == counts[j]
             e == m[x]
  <2>1. /\ a \in Nat /\ b \in Nat /\ e = a + b /\ k <= e /\ ~(k <= a) /\ k \in Int
        /\ Len(parts[j]) = b
    BY <1>4, <1>7, <1>8, <1>9, <1>10
  <2> HIDE DEF a, b, e
  <2>2. k - a \in 1 .. b /\ k = a + (k - a)
    BY <2>1
  <2> QED BY <2>1, <2>2 DEF a
<1> HIDE DEF i
<1>12. s[m[j] + i] = parts[j][i]
  BY <1>8, <1>11 DEF Strung
<1> QED BY <1>8, <1>11, <1>12

LEMMA StrungSame ==
    ASSUME NEW parts, NEW counts, NEW n, NEW m, Parted(parts, counts, n, m),
           NEW s, Strung(s, parts, m, n), NEW t, Strung(t, parts, m, n)
    PROVE  s = t
<1>1. IsSequence(s) /\ IsSequence(t) /\ Len(s) = Len(t)
  BY DEF Strung
<1>2. ASSUME NEW k \in 1 .. Len(s)
      PROVE  s[k] = t[k]
  <2>1. PICK j \in 1 .. n : \E i \in 1 .. Len(parts[j]) : k = m[j] + i /\ s[k] = parts[j][i]
    BY StrungElement
  <2>2. PICK i \in 1 .. Len(parts[j]) : k = m[j] + i /\ s[k] = parts[j][i]
    BY <2>1
  <2>3. t[m[j] + i] = parts[j][i]
    BY DEF Strung
  <2> QED BY <2>2, <2>3
<1> QED BY <1>1, <1>2, SameSequence

(* A part is cut out where it begins. *)
LEMMA PartCut ==
    ASSUME NEW parts, NEW counts, NEW n, NEW m, Parted(parts, counts, n, m),
           NEW s, Strung(s, parts, m, n), NEW j \in 1 .. n
    PROVE  SubSeq(s, m[j] + 1, m[j] + counts[j]) = parts[j]
<1> DEFINE x == m[j]
           l == counts[j]
           lo == x + 1
           hi == x + l
           u == SubSeq(s, lo, hi)
<1>1. x \in Nat /\ l \in Nat /\ Len(parts[j]) = l /\ IsSequence(parts[j])
  BY PartedFacts
<1>2. \A i \in 1 .. Len(parts[j]) : s[x + i] = parts[j][i]
  BY DEF Strung
<1> HIDE DEF x, l
<1>3. lo \in Int /\ hi \in Int /\ lo <= hi + 1 /\ hi - lo + 1 = l
  BY <1>1
<1>4. \A i \in 1 .. l : lo + i - 1 = x + i
  BY <1>1
<1> HIDE DEF lo, hi
<1>5. IsSequence(u) /\ Len(u) = hi - lo + 1 /\ \A i \in 1 .. hi - lo + 1 : u[i] = s[lo + i - 1]
  BY <1>3, Cut
<1> HIDE DEF u
<1>6. \A i \in 1 .. l : s[x + i] = parts[j][i]
  BY <1>1, <1>2
<1>7. \A i \in 1 .. Len(u) : u[i] = parts[j][i]
  BY <1>3, <1>4, <1>5, <1>6
<1>8. Len(u) = Len(parts[j])
  BY <1>1, <1>3, <1>5
<1> QED BY <1>1, <1>5, <1>7, <1>8, SameSequence DEF u, lo, hi, x, l

-----------------------------------------------------------------------------
(* What an honest run makes, of each instance and in all.                  *)

Spans == [j \in 1 .. N |-> Inputs[j] \o Pads(Insts[j].label)]
Quotients ==
    IF IsMdoc THEN [h \in 1 .. MacHalfCount |-> Quotient(h, Av, HalfValue(h))] ELSE <<>>
Proofs ==
    [j \in 1 .. N |->
        [channel |-> Channels[j], input |-> Inputs[j], pads |-> Pads(Insts[j].label),
         quotients |-> IF Insts[j].label = "mac" THEN Quotients ELSE <<>>]]
SentAt == [j \in 1 .. N |-> SentValues(Insts[j], Proofs[j])]

(* An instance's claims, of values sent, by either side. *)
ClaimsMadeOf(j, values) ==
    LET inst == Insts[j]
        pads == PadClaims(LayoutAt[j], Proofs[j], Root, case.prover.seed)
    IN  IF inst.label = "mac"
        THEN SplitClaims(LayoutAt[j], Place[N + 1], Proofs[j], values)
             \o pads \o MacClaims(LayoutAt[j], SubSeq(values, 5, Len(values)))
        ELSE InputClaims(LayoutAt[j], Proofs[j]) \o pads
             \o PublicClaims(inst, case.prover.projections[inst.signer + 1], LayoutAt[j])
             \o PrivateClaims(PrivateNames(case.prover.mode, inst), inst, LayoutAt[j], values)

ClaimsAt == [j \in 1 .. N |-> ClaimsMadeOf(j, SentAt[j])]
ClaimCounts == [j \in 1 .. N |-> Len(ClaimsAt[j])]
ClaimMark == CHOOSE m : Totals(ClaimCounts, N, m)

Drawn == ProximityIndices(Root, case.prover.seed)
Rows == RowCount(Place[N + 1]) + (IF IsMdoc THEN RowCount(MacHalfCount) ELSE 0)

LEMMA HonestKept ==
    ASSUME case' = case
    PROVE  /\ Spans' = Spans /\ Quotients' = Quotients /\ Proofs' = Proofs /\ SentAt' = SentAt
           /\ ClaimsAt' = ClaimsAt /\ ClaimCounts' = ClaimCounts /\ ClaimMark' = ClaimMark
           /\ Drawn' = Drawn /\ Rows' = Rows /\ Honest' = Honest
<1>1. /\ Insts' = Insts /\ N' = N /\ IsMdoc' = IsMdoc /\ Inputs' = Inputs
      /\ Place' = Place /\ LayoutAt' = LayoutAt /\ Av' = Av /\ Root' = Root
      /\ Channels' = Channels
  BY CaseKept
<1>2. \A h : HalfValue(h)' = HalfValue(h)
  BY DEF HalfValue
<1>3. Spans' = Spans
  BY <1>1 DEF Spans
<1>4. Quotients' = Quotients
  BY <1>1, <1>2 DEF Quotients
<1>5. Proofs' = Proofs
  BY <1>1, <1>4 DEF Proofs
<1>6. SentAt' = SentAt
  BY <1>1, <1>5 DEF SentAt, SentValues, SentNames, HalfValue, CellValue
<1>7. ClaimsAt' = ClaimsAt
  BY <1>1, <1>5, <1>6 DEF ClaimsAt, ClaimsMadeOf
<1>8. ClaimCounts' = ClaimCounts
  BY <1>1, <1>7 DEF ClaimCounts
<1>9. ClaimMark' = ClaimMark
  BY <1>1, <1>8 DEF ClaimMark
<1>10. Drawn' = Drawn /\ Rows' = Rows
  BY <1>1 DEF Drawn, Rows
<1>11. Honest' = Honest
  BY DEF Honest
<1> QED BY <1>3, <1>4, <1>5, <1>6, <1>7, <1>8, <1>9, <1>10, <1>11

LEMMA PadFacts ==
    ASSUME NEW label \in Labels
    PROVE  /\ PadLen[label] \in Nat
           /\ IsSequence(Pads(label)) /\ Len(Pads(label)) = PadLen[label]
<1> DEFINE p == Pads(label)
           n == PadLen[label]
<1>1. n \in Nat
  BY BundleAssumption DEF Labels
<1>2. p = [i \in 1 .. n |-> <<"pad", label, i>>]
  BY DEF Pads
<1> HIDE DEF p, n
<1>3. p = [i \in 1 .. n |-> p[i]]
  BY <1>2
<1> QED BY <1>1, <1>3, Tabulated DEF p, n

(* The committed values are each instance's input and pads. *)
LEMMA SpanParts ==
    ASSUME case \in Cases
    PROVE  /\ Parted(Spans, SpanLens, N, Place)
           /\ \A j \in 1 .. N :
                /\ Len(Inputs[j]) \in Nat \ {0} /\ Len(Pads(Insts[j].label)) \in Nat
                /\ Len(Spans[j]) = Len(Inputs[j]) + Len(Pads(Insts[j].label))
                /\ \A i \in 1 .. Len(Inputs[j]) : Spans[j][i] = Inputs[j][i]
                /\ \A i \in 1 .. Len(Pads(Insts[j].label)) :
                      Spans[j][Len(Inputs[j]) + i] = Pads(Insts[j].label)[i]
<1>1. N \in Nat
  BY CaseFacts
<1>2. ASSUME NEW j \in 1 .. N
      PROVE  /\ IsSequence(Spans[j]) /\ Len(Spans[j]) = SpanLens[j] /\ SpanLens[j] \in Nat
             /\ Len(Inputs[j]) \in Nat \ {0} /\ Len(Pads(Insts[j].label)) \in Nat
             /\ Len(Spans[j]) = Len(Inputs[j]) + Len(Pads(Insts[j].label))
             /\ \A i \in 1 .. Len(Inputs[j]) : Spans[j][i] = Inputs[j][i]
             /\ \A i \in 1 .. Len(Pads(Insts[j].label)) :
                      Spans[j][Len(Inputs[j]) + i] = Pads(Insts[j].label)[i]
  <2> DEFINE u == Inputs[j]
             p == Pads(Insts[j].label)
  <2>1. Insts[j].label \in Labels
    BY InstanceFacts
  <2>2. /\ PadLen[Insts[j].label] \in Nat
        /\ IsSequence(p) /\ Len(p) = PadLen[Insts[j].label]
    BY <2>1, PadFacts
  <2>3. /\ IsSequence(u) /\ Len(u) \in Nat \ {0} /\ InputLen(Insts[j].label) = Len(u)
    BY InputFacts, PlaceSteps
  <2>4. Spans[j] = u \o p
    BY DEF Spans
  <2>5. SpanLens[j] = Len(u) + Len(p)
    BY <2>2, <2>3 DEF SpanLens
  <2> HIDE DEF u, p
  <2>6. /\ IsSequence(u \o p) /\ Len(u \o p) = Len(u) + Len(p)
        /\ \A i \in 1 .. Len(u) : (u \o p)[i] = u[i]
        /\ \A i \in 1 .. Len(p) : (u \o p)[Len(u) + i] = p[i]
    BY <2>2, <2>3, Joined
  <2>7. IsSequence(Spans[j]) /\ Len(Spans[j]) = SpanLens[j] /\ Len(Spans[j]) = Len(u) + Len(p)
    BY <2>4, <2>5, <2>6
  <2>8. SpanLens[j] \in Nat /\ Len(u) \in Nat \ {0} /\ Len(p) \in Nat
    BY <2>2, <2>3, <2>5
  <2>9. /\ \A i \in 1 .. Len(u) : Spans[j][i] = u[i]
        /\ \A i \in 1 .. Len(p) : Spans[j][Len(u) + i] = p[i]
    BY <2>4, <2>6
  <2> QED BY <2>7, <2>8, <2>9 DEF u, p
<1>3. SpanLens = [j \in 1 .. N |-> SpanLens[j]]
  BY DEF SpanLens
<1>4. SpanLens \in [1 .. N -> Nat]
  BY <1>2, <1>3
<1>5. Totals(SpanLens, N, Place)
  BY <1>1, <1>4, TotalsExist DEF Place
<1>6. Parted(Spans, SpanLens, N, Place)
  BY <1>1, <1>2, <1>4, <1>5 DEF Parted
<1> QED BY <1>2, <1>6

LEMMA SentParts ==
    ASSUME case \in Cases
    PROVE  Parted(SentAt, SentCounts, N, Mark)
<1>1. N \in Nat
  BY CaseFacts
<1>2. /\ Mark \in [1 .. N + 1 -> Nat] /\ Mark[1] = 0
      /\ \A j \in 1 .. N : Mark[j + 1] = Mark[j] + SentCounts[j]
      /\ SentCounts \in [1 .. N -> Nat]
  BY MarkSteps
<1>3. \A j \in 1 .. N : IsSequence(SentAt[j]) /\ Len(SentAt[j]) = SentCounts[j]
  BY SentLen DEF SentAt
<1>4. Totals(SentCounts, N, Mark)
  BY <1>2 DEF Totals
<1> QED BY <1>1, <1>2, <1>3, <1>4 DEF Parted

LEMMA ClaimParts ==
    ASSUME case \in Cases
    PROVE  Parted(ClaimsAt, ClaimCounts, N, ClaimMark)
<1>1. N \in Nat
  BY CaseFacts
<1>2. ASSUME NEW j \in 1 .. N
      PROVE  IsSequence(ClaimsAt[j])
  <2> DEFINE inst == Insts[j]
             lay == LayoutAt[j]
             proof == Proofs[j]
             values == SentAt[j]
             pads == PadClaims(lay, proof, Root, case.prover.seed)
             split == SplitClaims(lay, Place[N + 1], proof, values)
             vs == SubSeq(values, 5, Len(values))
             macs == MacClaims(lay, vs)
             ins == InputClaims(lay, proof)
             pub == PublicClaims(inst, case.prover.projections[inst.signer + 1], lay)
             names == PrivateNames(case.prover.mode, inst)
             priv == PrivateClaims(names, inst, lay, values)
  <2>1. ClaimsAt[j] = IF inst.label = "mac" THEN split \o pads \o macs
                      ELSE ins \o pads \o pub \o priv
    BY DEF ClaimsAt, ClaimsMadeOf
  <2>2. inst.label \in Labels
    BY InstanceFacts
  <2>3. IsSequence(ins) /\ IsSequence(pads) /\ IsSequence(split)
    BY OtherClaims
  <2>4. IsSequence(macs)
    BY MacClaimsMade
  <2>5. inst.label # "mac" => IsSequence(pub)
    BY <2>2, PublicClaimsMade
  <2>6. inst.label # "mac" => IsSequence(priv)
    <3>1. inst.label # "mac" => Len(names) \in 0 .. 6 /\ DOMAIN names = 1 .. Len(names)
      BY <2>2, PrivateNamesOf
    <3>2. inst.label # "mac" => Len(names) \in Nat /\ DOMAIN names = 1 .. Len(names)
      BY <3>1
    <3> HIDE DEF names, values, lay, inst
    <3> QED BY <3>2, PrivateClaimsMade
  <2> HIDE DEF pads, split, macs, ins, pub, priv, inst
  <2>7. inst.label = "mac" => IsSequence(split \o pads \o macs)
    BY <2>3, <2>4, ThreeJoined
  <2>8. inst.label # "mac" => IsSequence(ins \o pads \o pub \o priv)
    BY <2>3, <2>5, <2>6, FourJoined
  <2> QED BY <2>1, <2>7, <2>8
<1>3. ClaimCounts \in [1 .. N -> Nat]
  <2>1. ASSUME NEW j \in 1 .. N
        PROVE  Len(ClaimsAt[j]) \in Nat
    BY <1>2 DEF IsSequence
  <2> QED BY <2>1 DEF ClaimCounts
<1>4. Totals(ClaimCounts, N, ClaimMark)
  BY <1>1, <1>3, TotalsExist DEF ClaimMark
<1>5. \A j \in 1 .. N : Len(ClaimsAt[j]) = ClaimCounts[j]
  BY DEF ClaimCounts
<1> QED BY <1>1, <1>2, <1>3, <1>4, <1>5 DEF Parted

-----------------------------------------------------------------------------
(* The invariant of an honest run: everything is as it should be, not only
   what the binding needs. *)

Spanned(count) == bundle.params = "v4" /\ Strung(bundle.groupA, Spans, Place, count)

Placed(count) ==
    /\ IsSequence(layouts.prover) /\ Len(layouts.prover) = count
    /\ \A j \in 1 .. count : layouts.prover[j] = LayoutAt[j]

OpenedAsDrawn ==
    /\ bundle.proximity = ProximityGamma(Root, Rows, case.prover.seed)
    /\ bundle.openingsA = [root |-> RootA, indices |-> Drawn]
    /\ IsMdoc => bundle.openingsB = [root |-> RootB, indices |-> Drawn]

Entered(count) ==
    /\ IsSequence(bundle.entries) /\ Len(bundle.entries) = count
    /\ \A j \in 1 .. count : bundle.entries[j] = Proofs[j]

Valued(count) == Strung(bundle.values, SentAt, Mark, count)
Claimed(count) == Strung(claims, ClaimsAt, ClaimMark, count)

Batched ==
    \E cs : /\ Strung(cs, ClaimsAt, ClaimMark, N)
            /\ bundle.batch = [weights |-> Weights(cs),
                               gamma |-> ClaimGamma(Root, Len(cs), case.prover.seed)]

Committed == Spanned(N) /\ bundle.groupB = Quotients
Whole == Committed /\ OpenedAsDrawn /\ Entered(N) /\ Valued(N) /\ Batched

HonestLayout == phase = "layout" /\ claims = <<>> /\ Spanned(at - 1) /\ Placed(at - 1)
HonestProximity == phase = "proximity" /\ claims = <<>> /\ Committed /\ Placed(N)
HonestSumcheck ==
    /\ phase = "sumcheck" /\ claims = <<>> /\ Committed /\ Placed(N)
    /\ OpenedAsDrawn /\ Entered(at - 1)
HonestClaims ==
    /\ phase = "claims" /\ Committed /\ Placed(N) /\ OpenedAsDrawn /\ Entered(N)
    /\ Valued(at - 1) /\ Claimed(at - 1)
HonestSent == phase \in {"sent", "setup", "shapes"} /\ Whole
HonestInstances ==
    /\ phase = "instances" /\ Whole /\ Claimed(at - 1)
    /\ CommittedLen(layouts.verifier) = Place[N + 1]
HonestAnswered == phase = "answered" /\ outcome = "accepted"

HInv ==
    Honest => \/ HonestLayout \/ HonestProximity \/ HonestSumcheck \/ HonestClaims
              \/ HonestSent \/ HonestInstances \/ HonestAnswered

LEMMA SpannedStays ==
    ASSUME case' = case, bundle'.params = bundle.params, bundle'.groupA = bundle.groupA
    PROVE  /\ Spanned(N) => Spanned(N)'
           /\ bundle'.groupB = bundle.groupB /\ Committed => Committed'
<1>1. N' = N /\ Place' = Place /\ Spans' = Spans /\ Quotients' = Quotients
  BY CaseKept, HonestKept
<1>2. Spanned(N) => Spanned(N)'
  BY <1>1 DEF Spanned, Strung
<1> QED BY <1>1, <1>2 DEF Committed

LEMMA PlacedStays ==
    ASSUME case' = case, layouts'.prover = layouts.prover, Placed(N)
    PROVE  Placed(N)'
<1>1. N' = N /\ LayoutAt' = LayoutAt
  BY CaseKept
<1> QED BY <1>1 DEF Placed

LEMMA OpenedAsDrawnStays ==
    ASSUME case' = case, OpenedAsDrawn, bundle'.proximity = bundle.proximity,
           bundle'.openingsA = bundle.openingsA, bundle'.openingsB = bundle.openingsB
    PROVE  OpenedAsDrawn'
<1>1. /\ Root' = Root /\ RootA' = RootA /\ RootB' = RootB /\ IsMdoc' = IsMdoc
      /\ Rows' = Rows /\ Drawn' = Drawn
  BY CaseKept, HonestKept
<1> QED BY <1>1 DEF OpenedAsDrawn

LEMMA EnteredStays ==
    ASSUME case' = case, bundle'.entries = bundle.entries, Entered(N)
    PROVE  Entered(N)'
<1>1. N' = N /\ Proofs' = Proofs
  BY CaseKept, HonestKept
<1> QED BY <1>1 DEF Entered

LEMMA ValuedStays ==
    ASSUME case' = case, bundle'.values = bundle.values, Valued(N)
    PROVE  Valued(N)'
<1>1. N' = N /\ Mark' = Mark /\ SentAt' = SentAt
  BY CaseKept, HonestKept
<1> QED BY <1>1 DEF Valued, Strung

LEMMA WholeStays ==
    ASSUME case' = case, bundle' = bundle, Whole
    PROVE  Whole'
<1>1. /\ N' = N /\ Root' = Root /\ ClaimsAt' = ClaimsAt /\ ClaimMark' = ClaimMark
  BY CaseKept, HonestKept
<1>2. Committed' /\ OpenedAsDrawn' /\ Entered(N)' /\ Valued(N)'
  BY SpannedStays, OpenedAsDrawnStays, EnteredStays, ValuedStays DEF Whole
<1>3. Batched'
  BY <1>1 DEF Whole, Batched, Strung
<1> QED BY <1>2, <1>3 DEF Whole

LEMMA Associated ==
    ASSUME NEW s, NEW t, NEW u, IsSequence(s), IsSequence(t), IsSequence(u)
    PROVE  (s \o t) \o u = s \o (t \o u)
<1> DEFINE S == {s[i] : i \in 1 .. Len(s)} \cup {t[i] : i \in 1 .. Len(t)}
                    \cup {u[i] : i \in 1 .. Len(u)}
<1>1. /\ \A i \in 1 .. Len(s) : s[i] \in S
      /\ \A i \in 1 .. Len(t) : t[i] \in S
      /\ \A i \in 1 .. Len(u) : u[i] \in S
  OBVIOUS
<1> HIDE DEF S
<1>2. s \in Seq(S) /\ t \in Seq(S) /\ u \in Seq(S)
  BY <1>1, SequenceIn
<1> QED BY <1>2, ConcatAssociative

LEMMA HonestStarts == Init => HInv
<1> SUFFICES ASSUME Init PROVE HInv
  OBVIOUS
<1>1. /\ case \in Cases /\ phase = "layout" /\ at = 1 /\ claims = <<>>
      /\ layouts.prover = <<>> /\ bundle.params = "v4" /\ bundle.groupA = <<>>
  BY DEF Init
<1>2. IsSequence(<<>>) /\ Len(<<>>) = 0
  BY Single
<1>3. Place[1] = 0 /\ at - 1 = 0
  BY <1>1, PlaceSteps
<1>4. Spanned(0) /\ Placed(0)
  BY <1>1, <1>2, <1>3 DEF Spanned, Strung, Placed
<1> QED BY <1>1, <1>3, <1>4 DEF HInv, HonestLayout

LEMMA LayOutHonest ==
    ASSUME Shaped, InLayout, HonestLayout, LayOut
    PROVE  HonestLayout'
<1> DEFINE a == bundle.groupA
           u == Inputs[at]
           p == Pads(Insts[at].label)
<1>1. /\ case \in Cases /\ at \in Nat \ {0} /\ DOMAIN bundle = BundleFields
      /\ DOMAIN layouts = {"prover", "verifier"} /\ phase = "layout"
  BY DEF Shaped, InLayout
<1>2. /\ case' = case /\ phase' = phase /\ at' = at + 1 /\ claims' = claims
  BY DEF LayOut
<1>3. N \in Nat /\ at \in 1 .. N
  <2>1. N \in Nat
    BY <1>1, CaseFacts
  <2> QED BY <1>1, <2>1 DEF LayOut, N
<1>4. InputOf(Insts[at]) = u
  BY <1>3 DEF Inputs
<1>5. /\ bundle' = [bundle EXCEPT !.groupA = a \o u \o p]
      /\ layouts' = [layouts EXCEPT !.prover =
                        Append(layouts.prover, Layout(Len(a), Len(u), Len(p)))]
  BY <1>4 DEF LayOut
<1>6. /\ N' = N /\ Place' = Place /\ Spans' = Spans /\ LayoutAt' = LayoutAt
  BY <1>2, CaseKept, HonestKept
<1>7. at' - 1 = at /\ (at - 1) + 1 = at
  BY <1>2, <1>3
<1>8. IsSequence(u) /\ IsSequence(p) /\ Len(u) = InputLen(Insts[at].label)
      /\ Len(p) = PadLen[Insts[at].label]
  <2>1. Insts[at].label \in Labels
    BY <1>1, <1>3, InstanceFacts
  <2> QED BY <1>1, <1>3, <2>1, InputFacts, PadFacts
<1>9. IsSequence(a) /\ Len(a) = Place[at] /\ Strung(a, Spans, Place, at - 1)
  BY <1>7 DEF HonestLayout, Spanned, Strung
<1>10. Spans[at] = u \o p
  BY <1>3 DEF Spans
<1> HIDE DEF a, u, p
<1>11. a \o u \o p = a \o Spans[at]
  <2>1. IsSequence(a) /\ IsSequence(u) /\ IsSequence(p)
    BY <1>8, <1>9
  <2>2. (a \o u) \o p = a \o (u \o p)
    BY <2>1, Associated
  <2> QED BY <1>10, <2>2
<1>12. Strung(a \o Spans[at], Spans, Place, at)
  <2>1. Parted(Spans, SpanLens, N, Place)
    BY <1>1, SpanParts
  <2> QED BY <1>3, <1>9, <2>1, StrungGrows
<1>13. bundle'.groupA = a \o Spans[at] /\ bundle'.params = bundle.params
  <2> DEFINE g == a \o u \o p
  <2>1. bundle' = [bundle EXCEPT !.groupA = g]
    BY <1>5
  <2>2. g = a \o Spans[at]
    BY <1>11
  <2> HIDE DEF g
  <2> QED BY <1>1, <2>1, <2>2 DEF BundleFields
<1>14. Spanned(at - 1)'
  <2>1. Strung(bundle'.groupA, Spans', Place', at' - 1)
    BY <1>6, <1>7, <1>12, <1>13
  <2>2. bundle'.params = "v4"
    BY <1>13 DEF HonestLayout, Spanned
  <2> QED BY <2>1, <2>2 DEF Spanned, Strung
<1>15. Placed(at - 1)'
  <2> DEFINE lp == layouts.prover
             l == Layout(Len(a), Len(u), Len(p))
  <2>1. IsSequence(lp) /\ Len(lp) = at - 1 /\ \A j \in 1 .. at - 1 : lp[j] = LayoutAt[j]
    BY DEF HonestLayout, Placed
  <2>2. l = LayoutAt[at]
    BY <1>3, <1>8, <1>9 DEF LayoutAt
  <2>3. layouts'.prover = Append(lp, l)
    BY <1>1, <1>5
  <2> HIDE DEF lp, l
  <2>4. /\ IsSequence(Append(lp, l)) /\ Len(Append(lp, l)) = Len(lp) + 1
        /\ \A i \in 1 .. Len(lp) : Append(lp, l)[i] = lp[i]
        /\ Append(lp, l)[Len(lp) + 1] = l
    BY <2>1, Appended
  <2>5. ASSUME NEW j \in 1 .. at
        PROVE  Append(lp, l)[j] = LayoutAt[j]
    <3>1. j = at \/ j \in 1 .. at - 1
      BY <1>3
    <3> QED BY <1>7, <2>1, <2>2, <2>4, <3>1
  <2>6. Len(Append(lp, l)) = at
    BY <1>7, <2>1, <2>4
  <2> QED BY <1>6, <1>7, <2>3, <2>4, <2>5, <2>6 DEF Placed
<1> QED BY <1>1, <1>2, <1>14, <1>15 DEF HonestLayout

LEMMA CommitHonest ==
    ASSUME Shaped, InLayout, HonestLayout, Commit
    PROVE  HonestProximity'
<1>1. /\ case \in Cases /\ at \in Nat \ {0} /\ at <= N + 1 /\ DOMAIN bundle = BundleFields
      /\ N \in Nat
  BY CaseFacts DEF Shaped, InLayout
<1>2. /\ case' = case /\ phase' = "proximity" /\ claims' = claims /\ layouts' = layouts
      /\ at > N
  BY DEF Commit, N
<1>3. at - 1 = N
  BY <1>1, <1>2
<1>4. PICK ra, rb, ts : bundle' = [bundle EXCEPT !.rootA = ra, !.rootB = rb, !.tags = ts,
                                                 !.groupB = Quotients]
  BY DEF Commit, Quotients, IsMdoc, Av, RootA
<1>5. /\ bundle'.params = bundle.params /\ bundle'.groupA = bundle.groupA
      /\ bundle'.groupB = Quotients
  BY <1>1, <1>4 DEF BundleFields
<1>6. Spanned(N)' /\ Placed(N)'
  BY <1>2, <1>3, <1>5, SpannedStays, PlacedStays DEF HonestLayout
<1>7. Committed'
  BY <1>2, <1>5, <1>6, HonestKept DEF Committed
<1> QED BY <1>2, <1>6, <1>7 DEF HonestProximity, HonestLayout

LEMMA ProximityHonest ==
    ASSUME Shaped, InProximity, HonestProximity, Proximity
    PROVE  HonestSumcheck'
<1>1. /\ case \in Cases /\ at = 1 /\ DOMAIN bundle = BundleFields /\ N \in Nat
  BY CaseFacts DEF Shaped, InProximity
<1>2. /\ case' = case /\ phase' = "sumcheck" /\ claims' = claims /\ layouts' = layouts /\ at' = at
  BY DEF Proximity
<1>3. /\ RootOf(bundle, case.prover.mode) = Root /\ bundle.rootA = RootA /\ bundle.rootB = RootB
  BY RootedRoot DEF InProximity, Rooted
<1>4. Len(bundle.groupA) = Place[N + 1]
  BY DEF InProximity, LaidOut
<1>5. bundle' = [bundle EXCEPT
            !.proximity = ProximityGamma(Root, Rows, case.prover.seed),
            !.openingsA = [root |-> RootA, indices |-> Drawn],
            !.openingsB = IF IsMdoc THEN [root |-> RootB, indices |-> Drawn] ELSE <<>>]
  BY <1>3, <1>4 DEF Proximity, Rows, Drawn, IsMdoc
<1>6. /\ bundle'.params = bundle.params /\ bundle'.groupA = bundle.groupA
      /\ bundle'.groupB = bundle.groupB /\ bundle'.entries = bundle.entries
      /\ bundle'.proximity = ProximityGamma(Root, Rows, case.prover.seed)
      /\ bundle'.openingsA = [root |-> RootA, indices |-> Drawn]
      /\ IsMdoc => bundle'.openingsB = [root |-> RootB, indices |-> Drawn]
  BY <1>1, <1>5 DEF BundleFields
<1>7. Committed' /\ Placed(N)'
  BY <1>2, <1>6, SpannedStays, PlacedStays DEF HonestProximity
<1>8. OpenedAsDrawn'
  <2>1. /\ Root' = Root /\ RootA' = RootA /\ RootB' = RootB /\ IsMdoc' = IsMdoc
        /\ Rows' = Rows /\ Drawn' = Drawn
    BY <1>2, CaseKept, HonestKept
  <2> QED BY <1>2, <1>6, <2>1 DEF OpenedAsDrawn
<1>9. Entered(at - 1)'
  <2>1. at' - 1 = 0
    BY <1>1, <1>2
  <2>2. IsSequence(bundle.entries) /\ Len(bundle.entries) = 0
    BY DEF InProximity, Proved
  <2> QED BY <1>6, <2>1, <2>2 DEF Entered
<1> QED BY <1>2, <1>7, <1>8, <1>9 DEF HonestSumcheck, HonestProximity

LEMMA ProveInstanceHonest ==
    ASSUME Shaped, InSumcheck, HonestSumcheck, ProveInstance
    PROVE  HonestSumcheck'
<1>1. /\ case \in Cases /\ at \in Nat \ {0} /\ DOMAIN bundle = BundleFields /\ phase = "sumcheck"
  BY DEF Shaped, InSumcheck
<1>2. /\ case' = case /\ phase' = phase /\ at' = at + 1 /\ layouts' = layouts /\ claims' = claims
  BY DEF ProveInstance
<1>3. N \in Nat /\ at \in 1 .. N
  <2>1. N \in Nat
    BY <1>1, CaseFacts
  <2> QED BY <1>1, <2>1 DEF ProveInstance, N
<1> DEFINE e == Proofs[at]
           old == bundle.entries
           es == Append(old, e)
<1>4. bundle' = [bundle EXCEPT !.entries = es]
  <2>1. RootOf(bundle, case.prover.mode) = Root
    BY RootedRoot DEF InSumcheck
  <2>2. DrawAv(case.prover.seed, bundle.rootA) = Av /\ bundle.tags = TagsMade
    BY DEF InSumcheck, Rooted, Av
  <2>3. Channels[at] = InstanceChannel(Insts[at], case.prover, Root, Av, TagsMade)
    BY <1>3 DEF Channels
  <2>4. bundle.groupB = Quotients
    BY DEF HonestSumcheck, Committed
  <2>5. InputOf(Insts[at]) = Inputs[at]
    BY <1>3 DEF Inputs
  <2>6. e = [channel |-> Channels[at], input |-> Inputs[at], pads |-> Pads(Insts[at].label),
             quotients |-> IF Insts[at].label = "mac" THEN Quotients ELSE <<>>]
    BY <1>3 DEF Proofs
  <2> QED BY <2>1, <2>2, <2>3, <2>4, <2>5, <2>6 DEF ProveInstance
<1>5. IsSequence(old) /\ Len(old) = at - 1 /\ \A j \in 1 .. at - 1 : old[j] = Proofs[j]
  BY DEF HonestSumcheck, Entered
<1> HIDE DEF e, old
<1>6. /\ IsSequence(es) /\ Len(es) = Len(old) + 1
      /\ \A i \in 1 .. Len(old) : es[i] = old[i]
      /\ es[Len(old) + 1] = e
  BY <1>5, Appended
<1> HIDE DEF es
<1>7. /\ bundle'.params = bundle.params /\ bundle'.groupA = bundle.groupA
      /\ bundle'.groupB = bundle.groupB /\ bundle'.entries = es
      /\ bundle'.proximity = bundle.proximity
      /\ bundle'.openingsA = bundle.openingsA /\ bundle'.openingsB = bundle.openingsB
  BY <1>1, <1>4 DEF BundleFields
<1>8. Committed' /\ Placed(N)' /\ OpenedAsDrawn'
  BY <1>2, <1>7, SpannedStays, PlacedStays, OpenedAsDrawnStays DEF HonestSumcheck
<1>9. Entered(at - 1)'
  <2>1. at' - 1 = at /\ Len(es) = at
    BY <1>2, <1>3, <1>5, <1>6
  <2>2. ASSUME NEW j \in 1 .. at
        PROVE  es[j] = Proofs[j]
    <3>1. CASE j = at
      <4>1. Len(old) + 1 = at
        BY <1>3, <1>5
      <4> QED BY <1>6, <3>1, <4>1 DEF e
    <3>2. CASE j # at
      <4>1. j \in 1 .. at - 1
        BY <1>3, <3>2
      <4> QED BY <1>5, <1>6, <4>1
    <3> QED BY <3>1, <3>2
  <2>3. Proofs' = Proofs
    BY <1>2, HonestKept
  <2> QED BY <1>6, <1>7, <2>1, <2>2, <2>3 DEF Entered
<1> QED BY <1>1, <1>2, <1>8, <1>9 DEF HonestSumcheck

LEMMA NothingClaimed ==
    ASSUME case \in Cases, claims = <<>>
    PROVE  Claimed(0)
<1>1. N \in Nat /\ N >= 6
  BY CaseFacts
<1>2. Parted(ClaimsAt, ClaimCounts, N, ClaimMark)
  BY ClaimParts
<1>3. Totals(ClaimCounts, N, ClaimMark)
  BY <1>2 DEF Parted
<1>4. ClaimMark[0 + 1] = 0
  BY <1>3 DEF Totals
<1>5. IsSequence(<<>>) /\ Len(<<>>) = 0
  BY Single
<1> QED BY <1>4, <1>5 DEF Claimed, Strung

LEMMA StartClaimsHonest ==
    ASSUME Shaped, InSumcheck, HonestSumcheck, StartClaims
    PROVE  HonestClaims'
<1>1. /\ case \in Cases /\ at \in Nat \ {0} /\ at <= N + 1 /\ N \in Nat
  BY CaseFacts DEF Shaped, InSumcheck
<1>2. /\ case' = case /\ phase' = "claims" /\ at' = 1 /\ layouts' = layouts /\ bundle' = bundle
      /\ claims' = claims /\ at > N
  BY DEF StartClaims, N
<1>3. at - 1 = N
  BY <1>1, <1>2
<1>4. Committed' /\ Placed(N)' /\ OpenedAsDrawn' /\ Entered(N)'
  BY <1>2, <1>3, SpannedStays, PlacedStays, OpenedAsDrawnStays, EnteredStays DEF HonestSumcheck
<1>5. Valued(0)
  BY DEF InSumcheck, Sent, Valued, Strung
<1>6. Claimed(0)
  BY <1>1, NothingClaimed DEF HonestSumcheck
<1>7. /\ Mark' = Mark /\ SentAt' = SentAt /\ ClaimsAt' = ClaimsAt /\ ClaimMark' = ClaimMark
  BY <1>2, CaseKept, HonestKept
<1>8. at' - 1 = 0
  BY <1>2
<1>9. Valued(at - 1)' /\ Claimed(at - 1)'
  BY <1>2, <1>5, <1>6, <1>7, <1>8 DEF Valued, Claimed, Strung
<1> QED BY <1>2, <1>4, <1>9 DEF HonestClaims

LEMMA ClaimInstanceHonest ==
    ASSUME Shaped, InClaims, HonestClaims, ClaimInstance
    PROVE  HonestClaims'
<1>1. /\ case \in Cases /\ at \in Nat \ {0} /\ DOMAIN bundle = BundleFields /\ phase = "claims"
  BY DEF Shaped, InClaims
<1>2. /\ case' = case /\ phase' = phase /\ at' = at + 1 /\ layouts' = layouts
  BY DEF ClaimInstance
<1>3. N \in Nat /\ at \in 1 .. N /\ at' - 1 = at
  <2>1. N \in Nat
    BY <1>1, CaseFacts
  <2>2. at \in 1 .. N
    BY <1>1, <2>1 DEF ClaimInstance, N
  <2> QED BY <1>2, <2>1, <2>2
<1>4. bundle.entries[at] = Proofs[at] /\ layouts.prover[at] = LayoutAt[at]
  BY <1>3 DEF HonestClaims, Entered, Placed
<1>5. SentValues(Insts[at], Proofs[at]) = SentAt[at]
  BY <1>3 DEF SentAt
<1>6. bundle' = [bundle EXCEPT !.values = bundle.values \o SentAt[at]]
  BY <1>4, <1>5 DEF ClaimInstance
<1>7. ProverClaimsOf(Insts[at], LayoutAt[at], Proofs[at]) = ClaimsAt[at]
  <2>1. RootOf(bundle, case.prover.mode) = Root /\ Len(bundle.groupA) = Place[N + 1]
    BY RootedRoot DEF InClaims, LaidOut
  <2>2. Insts[at].label \in Labels
    BY <1>1, <1>3, InstanceFacts
  <2>3. ClaimsAt[at] = ClaimsMadeOf(at, SentAt[at])
    BY <1>3 DEF ClaimsAt
  <2>4. CASE Insts[at].label = "mac"
    BY <1>5, <2>1, <2>3, <2>4 DEF ProverClaimsOf, ClaimsMadeOf
  <2>5. CASE Insts[at].label # "mac"
    <3>1. SentNames(Insts[at]) = PrivateNames(case.prover.mode, Insts[at])
      BY <2>2, <2>5, SentIsPrivate
    <3> QED BY <1>5, <2>1, <2>3, <2>5, <3>1 DEF ProverClaimsOf, ClaimsMadeOf
  <2> QED BY <2>4, <2>5
<1>8. claims' = claims \o ClaimsAt[at]
  BY <1>4, <1>7 DEF ClaimInstance
<1>9. /\ bundle'.params = bundle.params /\ bundle'.groupA = bundle.groupA
      /\ bundle'.groupB = bundle.groupB /\ bundle'.entries = bundle.entries
      /\ bundle'.values = bundle.values \o SentAt[at]
      /\ bundle'.proximity = bundle.proximity
      /\ bundle'.openingsA = bundle.openingsA /\ bundle'.openingsB = bundle.openingsB
  <2> DEFINE v == bundle.values \o SentAt[at]
  <2>1. bundle' = [bundle EXCEPT !.values = v]
    BY <1>6
  <2> HIDE DEF v
  <2>2. /\ bundle'.params = bundle.params /\ bundle'.groupA = bundle.groupA
        /\ bundle'.groupB = bundle.groupB /\ bundle'.entries = bundle.entries
        /\ bundle'.values = v
        /\ bundle'.proximity = bundle.proximity
        /\ bundle'.openingsA = bundle.openingsA /\ bundle'.openingsB = bundle.openingsB
    BY <1>1, <2>1 DEF BundleFields
  <2> QED BY <2>2 DEF v
<1>10. Committed' /\ Placed(N)' /\ OpenedAsDrawn' /\ Entered(N)'
  BY <1>2, <1>9, SpannedStays, PlacedStays, OpenedAsDrawnStays, EnteredStays DEF HonestClaims
<1>11. Strung(bundle.values \o SentAt[at], SentAt, Mark, at)
  <2>1. Parted(SentAt, SentCounts, N, Mark)
    BY <1>1, SentParts
  <2>2. Strung(bundle.values, SentAt, Mark, at - 1)
    BY DEF HonestClaims, Valued
  <2> QED BY <1>3, <2>1, <2>2, StrungGrows
<1>12. Strung(claims \o ClaimsAt[at], ClaimsAt, ClaimMark, at)
  <2>1. Parted(ClaimsAt, ClaimCounts, N, ClaimMark)
    BY <1>1, ClaimParts
  <2>2. Strung(claims, ClaimsAt, ClaimMark, at - 1)
    BY DEF HonestClaims, Claimed
  <2> QED BY <1>3, <2>1, <2>2, StrungGrows
<1>13. /\ Mark' = Mark /\ SentAt' = SentAt /\ ClaimsAt' = ClaimsAt /\ ClaimMark' = ClaimMark
  BY <1>2, CaseKept, HonestKept
<1>14. Valued(at - 1)' /\ Claimed(at - 1)'
  BY <1>3, <1>8, <1>9, <1>11, <1>12, <1>13 DEF Valued, Claimed
<1> QED BY <1>1, <1>2, <1>10, <1>14 DEF HonestClaims

LEMMA BatchHonest ==
    ASSUME Shaped, InClaims, HonestClaims, Batch
    PROVE  HonestSent'
<1>1. /\ case \in Cases /\ at \in Nat \ {0} /\ DOMAIN bundle = BundleFields /\ at <= N + 1
      /\ N \in Nat
  BY CaseFacts DEF Shaped, InClaims
<1>2. case' = case /\ phase' = "sent" /\ at > N
  BY DEF Batch, N
<1>3. at - 1 = N
  BY <1>1, <1>2
<1> DEFINE batch == [weights |-> Weights(claims),
                     gamma |-> ClaimGamma(Root, Len(claims), case.prover.seed)]
<1>4. bundle' = [bundle EXCEPT !.batch = batch]
  <2>1. RootOf(bundle, case.prover.mode) = Root
    BY RootedRoot DEF InClaims
  <2> QED BY <2>1 DEF Batch
<1> HIDE DEF batch
<1>5. /\ bundle'.params = bundle.params /\ bundle'.groupA = bundle.groupA
      /\ bundle'.groupB = bundle.groupB /\ bundle'.entries = bundle.entries
      /\ bundle'.values = bundle.values /\ bundle'.batch = batch
      /\ bundle'.proximity = bundle.proximity
      /\ bundle'.openingsA = bundle.openingsA /\ bundle'.openingsB = bundle.openingsB
  BY <1>1, <1>4 DEF BundleFields
<1>6. Valued(N) /\ Claimed(N)
  BY <1>3 DEF HonestClaims
<1>7. Committed' /\ OpenedAsDrawn' /\ Entered(N)' /\ Valued(N)'
  BY <1>2, <1>5, <1>6, SpannedStays, OpenedAsDrawnStays, EnteredStays, ValuedStays DEF HonestClaims
<1>8. Batched'
  <2>1. /\ N' = N /\ Root' = Root /\ ClaimsAt' = ClaimsAt /\ ClaimMark' = ClaimMark
    BY <1>2, CaseKept, HonestKept
  <2>2. /\ Strung(claims, ClaimsAt, ClaimMark, N)
        /\ bundle'.batch = [weights |-> Weights(claims),
                            gamma |-> ClaimGamma(Root, Len(claims), case.prover.seed)]
    BY <1>5, <1>6 DEF Claimed, batch
  <2>3. \E cs : /\ Strung(cs, ClaimsAt, ClaimMark, N)
                /\ bundle'.batch = [weights |-> Weights(cs),
                                    gamma |-> ClaimGamma(Root, Len(cs), case.prover.seed)]
    BY <2>2
  <2> QED BY <1>2, <2>1, <2>3 DEF Batched
<1> QED BY <1>2, <1>7, <1>8 DEF HonestSent, Whole

LEMMA DeliverHonest ==
    ASSUME Honest, HonestSent, Deliver
    PROVE  HonestSent'
<1>1. case' = case /\ phase' = "setup" /\ bundle' = bundle
  BY DEF Honest, Deliver, Received
<1> QED BY <1>1, WholeStays DEF HonestSent

(* The verifier expects the prover's call, and its walk is the prover's. *)
LEMMA HonestCall ==
    ASSUME case \in Cases, Honest
    PROVE  /\ Expected = case.prover /\ VerifierInsts = Insts /\ case.fault = "none"
           /\ Expected.mode = case.prover.mode /\ Expected.seed = case.prover.seed
           /\ Expected.projections = case.prover.projections
<1>1. IsCall(case.prover) /\ Insts = ProverInstances(case.prover)
  BY CaseFacts
<1>2. Expected = case.prover /\ case.fault = "none"
  BY DEF Honest, Expected
<1>3. VerifierInsts = Insts
  BY <1>1, <1>2, SameWalk DEF VerifierInsts
<1> QED BY <1>2, <1>3

(* Undamaged, the roots and the tags are those that were made. *)
LEMMA HonestRoots ==
    ASSUME case \in Cases, Honest, Delivered
    PROVE  /\ bundle.rootA = RootA /\ bundle.rootB = RootB /\ bundle.tags = TagsMade
           /\ VerifierRoot = Root /\ DrawAv(Expected.seed, bundle.rootA) = Av
           /\ Len(bundle.entries) = N
<1>1. /\ Expected.mode = case.prover.mode /\ Expected.seed = case.prover.seed
      /\ case.fault = "none"
  BY HonestCall
<1>2. bundle.rootA = RootA /\ bundle.rootB = RootB
  <2>1. case.fault # "no root b"
    BY <1>1
  <2> QED BY <2>1 DEF Delivered
<1>3. bundle.tags = TagsMade
  <2>1. case.fault # "tag lost"
    BY <1>1
  <2> QED BY <2>1 DEF Delivered
<1>4. Len(bundle.entries) = N
  <2>1. case.fault # "entry lost"
    BY <1>1
  <2>2. Len(bundle.entries) = IF case.fault = "entry lost" THEN N - 1 ELSE N
    BY DEF Delivered
  <2> QED BY <2>1, <2>2, Zenon
<1>5. VerifierRoot = Root
  BY <1>1, <1>2 DEF VerifierRoot, RootOf, Root, IsMdoc
<1>6. DrawAv(Expected.seed, bundle.rootA) = Av
  BY <1>1, <1>2 DEF Av
<1> QED BY <1>2, <1>3, <1>4, <1>5, <1>6

LEMMA SetupHonest ==
    ASSUME Shaped, InSetup, Honest, HonestSent, Setup
    PROVE  HonestSent'
<1>1. case \in Cases /\ Delivered
  BY DEF Shaped, InSetup
<1>2. /\ bundle.rootB = RootB /\ bundle.tags = TagsMade /\ Len(bundle.entries) = N
  BY <1>1, HonestRoots
<1>3. VerifierInsts = Insts /\ (Expected.mode = "mdoc" <=> IsMdoc)
  BY <1>1, HonestCall DEF IsMdoc
<1>4. IsMdoc => Len(TagsMade) = MacHalfCount
  <2> DEFINE t == [h \in 1 .. MacHalfCount |-> Tag(h, Av, HalfValue(h))]
  <2>1. t = [h \in 1 .. 6 |-> t[h]]
    BY DEF MacHalfCount
  <2>2. IsMdoc => TagsMade = t
    BY DEF TagsMade
  <2> HIDE DEF t
  <2>3. Len(t) = 6
    BY <2>1, Tabulated
  <2> QED BY <2>2, <2>3 DEF MacHalfCount
<1>5. IsMdoc => RootB # <<>>
  <2>1. Len(<<"B", Av>>) = 2 /\ Len(<<>>) = 0
    BY Tuple2, Single
  <2>2. <<"B", Av>> # <<>>
    BY <2>1
  <2> QED BY <2>2 DEF RootB
<1>6. Len(bundle.entries) = Len(VerifierInsts)
  BY <1>2, <1>3 DEF N
<1>7. SetupVerdict = "ok"
  BY <1>2, <1>3, <1>4, <1>5, <1>6 DEF SetupVerdict
<1>8. phase' = "shapes" /\ case' = case /\ bundle' = bundle
  BY <1>7 DEF Setup
<1> QED BY <1>8, WholeStays DEF HonestSent

LEMMA LayOutExpectedHonest ==
    ASSUME HonestSent, LayOutExpected
    PROVE  HonestSent'
<1>1. phase' = "shapes" /\ case' = case /\ bundle' = bundle
  BY DEF LayOutExpected
<1> QED BY <1>1, WholeStays DEF HonestSent

(* Laid out in full, the verifier knows how much was committed. *)
LEMMA AllLaidOut ==
    ASSUME case \in Cases, NEW lv, IsSequence(lv), Len(lv) = N,
           \A j \in 1 .. N : lv[j] = LayoutAt[j]
    PROVE  CommittedLen(lv) = Place[N + 1]
<1>1. N \in Nat /\ N >= 6 /\ N \in 1 .. N
  <2>1. N \in Nat /\ N >= 6
    BY CaseFacts
  <2> QED BY <2>1
<1>2. lv # <<>>
  <2>1. Len(<<>>) = 0
    BY Single
  <2> QED BY <1>1, <2>1
<1>3. Last(lv) = LayoutAt[N]
  BY <1>1 DEF Last
<1>4. LayoutAt[N] = Layout(Place[N], InputLen(Insts[N].label), PadLen[Insts[N].label])
  BY <1>1 DEF LayoutAt
<1>5. Last(lv).pad + Last(lv).padLen =
         (Place[N] + InputLen(Insts[N].label)) + PadLen[Insts[N].label]
  BY <1>3, <1>4 DEF Layout
<1>6. /\ InputLen(Insts[N].label) = Len(Inputs[N])
      /\ Place[N + 1] = Place[N] + Len(Inputs[N]) + PadLen[Insts[N].label]
  BY <1>1, PlaceSteps
<1> QED BY <1>2, <1>5, <1>6 DEF CommittedLen

LEMMA CheckOpeningsHonest ==
    ASSUME Shaped, InShapes, Honest, HonestSent, CheckOpenings
    PROVE  HonestInstances'
<1>1. /\ case \in Cases /\ at \in Nat \ {0} /\ at <= Len(VerifierInsts) + 1 /\ Delivered
      /\ claims = <<>> /\ ExpectedLaidOut(at - 1) /\ N \in Nat
  BY CaseFacts DEF Shaped, InShapes
<1>2. /\ bundle.rootA = RootA /\ bundle.rootB = RootB /\ VerifierRoot = Root
  BY <1>1, HonestRoots
<1>3. /\ VerifierInsts = Insts /\ (Expected.mode = "mdoc" <=> IsMdoc)
      /\ Expected.seed = case.prover.seed
  BY <1>1, HonestCall DEF IsMdoc
<1>4. at - 1 = N
  <2>1. at > Len(VerifierInsts) /\ Len(VerifierInsts) = N
    BY <1>3 DEF CheckOpenings, N
  <2> QED BY <1>1, <2>1
<1>5. CommittedLen(layouts.verifier) = Place[N + 1]
  <2>1. /\ IsSequence(layouts.verifier) /\ Len(layouts.verifier) = N
        /\ \A j \in 1 .. N : layouts.verifier[j] = LayoutAt[j]
    BY <1>1, <1>3, <1>4 DEF ExpectedLaidOut
  <2> QED BY <1>1, <2>1, AllLaidOut
<1>6. /\ bundle.params = "v4"
      /\ bundle.proximity = ProximityGamma(Root, Rows, case.prover.seed)
      /\ bundle.openingsA = [root |-> RootA, indices |-> Drawn]
      /\ IsMdoc => bundle.openingsB = [root |-> RootB, indices |-> Drawn]
  BY DEF HonestSent, Whole, Committed, Spanned, OpenedAsDrawn
<1>7. OpeningsHold
  <2>1. ProximityIndices(VerifierRoot, Expected.seed) = Drawn
    BY <1>2, <1>3 DEF Drawn
  <2>2. RowCount(CommittedLen(layouts.verifier))
            + (IF Expected.mode = "mdoc" THEN RowCount(MacHalfCount) ELSE 0) = Rows
    BY <1>3, <1>5 DEF Rows
  <2> QED BY <1>2, <1>3, <1>6, <2>1, <2>2 DEF OpeningsHold
<1>8. /\ phase' = "instances" /\ case' = case /\ bundle' = bundle /\ at' = 1
      /\ claims' = claims /\ layouts' = layouts
  BY <1>7 DEF CheckOpenings
<1>9. Whole'
  BY <1>8, WholeStays DEF HonestSent
<1>10. Claimed(at - 1)'
  <2>1. Claimed(0)
    BY <1>1, NothingClaimed
  <2>2. ClaimsAt' = ClaimsAt /\ ClaimMark' = ClaimMark /\ at' - 1 = 0
    BY <1>8, HonestKept
  <2> QED BY <1>8, <2>1, <2>2 DEF Claimed, Strung
<1>11. CommittedLen(layouts.verifier)' = Place'[N' + 1]
  BY <1>5, <1>8, CaseKept
<1> QED BY <1>8, <1>9, <1>10, <1>11 DEF HonestInstances

-----------------------------------------------------------------------------
(* The values of an honest run.                                            *)

LEMMA HonestValues ==
    ASSUME Honest
    PROVE  /\ \A s, l, n : CellValue(s, l, n) = Value(s, n, 0)
           /\ \A h : HalfValue(h) = Value(Half[h][1], Half[h][2], 0)
<1>1. case.deviation = {}
  BY DEF Honest
<1> QED BY <1>1 DEF CellValue, HalfValue

LEMMA ProofOf ==
    ASSUME NEW j \in 1 .. N
    PROVE  /\ Proofs[j].channel = Channels[j] /\ Proofs[j].input = Inputs[j]
           /\ Proofs[j].pads = Pads(Insts[j].label)
           /\ Insts[j].label = "mac" => Proofs[j].quotients = Quotients
BY DEF Proofs

LEMMA MacInputFacts ==
    ASSUME case \in Cases, NEW j \in 1 .. N, Insts[j].label = "mac", NEW h \in 1 .. MacHalfCount
    PROVE  /\ 3 * h - 2 \in 1 .. Len(Inputs[j]) /\ Inputs[j][3 * h - 2] = <<"one">>
           /\ 3 * h - 1 \in 1 .. Len(Inputs[j]) /\ Inputs[j][3 * h - 1] = HalfValue(h)
           /\ Inputs[j][3 * h] = <<"share", h>>
<1> DEFINE u == Inputs[j]
<1>1. Len(u) = 18
  <2>1. Len(u) = InputLen(Insts[j].label)
    BY InputFacts
  <2> QED BY <2>1 DEF InputLen, MacHalfCount
<1>2. u = MacInput
  BY DEF Inputs, InputOf
<1>3. MacInput = [i \in 1 .. 18 |->
            LET half == (i + 2) \div 3
            IN  CASE i % 3 = 1 -> <<"one">>
                  [] i % 3 = 2 -> HalfValue(half)
                  [] i % 3 = 0 -> <<"share", half>>]
  BY DEF MacInput, MacHalfCount
<1> HIDE DEF u
<1>4. h \in 1 .. 6
  BY DEF MacHalfCount
<1>5. /\ 3 * h - 2 \in 1 .. 18 /\ (3 * h - 2) % 3 = 1
      /\ 3 * h - 1 \in 1 .. 18 /\ (3 * h - 1) % 3 = 2 /\ ((3 * h - 1) + 2) \div 3 = h
      /\ 3 * h \in 1 .. 18 /\ (3 * h) % 3 = 0 /\ (3 * h + 2) \div 3 = h
  BY <1>4
<1>6. u[3 * h - 2] = <<"one">>
  <2>1. \A i \in 1 .. 18 : i % 3 = 1 => u[i] = <<"one">>
    BY <1>2, <1>3
  <2> QED BY <1>5, <2>1
<1>7. u[3 * h - 1] = HalfValue(h)
  <2>1. u[3 * h - 1] = HalfValue(((3 * h - 1) + 2) \div 3)
    BY <1>2, <1>3, <1>5
  <2> QED BY <1>5, <2>1
<1>8. u[3 * h] = <<"share", h>>
  <2>1. u[3 * h] = <<"share", (3 * h + 2) \div 3>>
    BY <1>2, <1>3, <1>5
  <2> QED BY <1>5, <2>1
<1> QED BY <1>1, <1>5, <1>6, <1>7, <1>8 DEF u

(* Cells of code 0 satisfy each circuit. *)
LEMMA EcdsaOfZeros ==
    ASSUME NEW label \in Labels, label # "mac", NEW u,
           \A i \in 1 .. Len(Cells(label)) : Code(u, i) = 0
    PROVE  EcdsaSatisfied(label, u)
<1>1. CASE label = "c1" \/ label = "c3"
  BY <1>1 DEF EcdsaSatisfied
<1>2. CASE label = "c2"
  <2>1. Len(Cells(label)) = 4
    BY <1>2, Tuple4 DEF Cells
  <2>2. Code(u, 3) = Code(u, 4)
    BY <2>1
  <2> QED BY <1>2, <2>2 DEF EcdsaSatisfied
<1>3. CASE label = "c11"
  <2>1. Len(Cells(label)) = 6
    BY <1>3, Tuple6 DEF Cells
  <2>2. \A i \in 1 .. 6 : Code(u, i) = Code(u, 1)
    BY <2>1
  <2> QED BY <1>3, <2>2 DEF EcdsaSatisfied
<1>4. CASE label = "c12"
  <2>1. Len(Cells(label)) = 6
    BY <1>4, Tuple6 DEF Cells
  <2>2. \A i \in {1, 3, 5} : i \in 1 .. 6 /\ i + 1 \in 1 .. 6
    OBVIOUS
  <2>3. \A i \in {1, 3, 5} : Code(u, i) = Code(u, i + 1)
    BY <2>1, <2>2
  <2> QED BY <1>4, <2>3 DEF EcdsaSatisfied
<1>5. CASE label = "c14"
  <2>1. Len(Cells(label)) = 2
    BY <1>5, Tuple2 DEF Cells
  <2>2. Code(u, 1) = Code(u, 2)
    BY <2>1
  <2> QED BY <1>5, <2>2 DEF EcdsaSatisfied
<1> QED BY <1>1, <1>2, <1>3, <1>4, <1>5 DEF Labels

(* Each circuit is satisfied. *)
LEMMA EcdsaHonest ==
    ASSUME case \in Cases, Honest, NEW j \in 1 .. N, Insts[j].label # "mac"
    PROVE  Len(Inputs[j]) = InputLen(Insts[j].label) /\ EcdsaSatisfied(Insts[j].label, Inputs[j])
<1> DEFINE label == Insts[j].label
           u == Inputs[j]
<1>1. label \in Labels
  BY InstanceFacts
<1>2. Len(u) = InputLen(label)
  BY InputFacts
<1>3. \A i \in 1 .. Len(Cells(label)) : Code(u, i) = 0
  <2> TAKE i \in 1 .. Len(Cells(label))
  <2>1. i \in DOMAIN Cells(label)
    BY <1>1, CellsOfLabel
  <2>2. u[i] = CellValue(Insts[j].signer, label, Cells(label)[i])
    BY <2>1, InputFacts
  <2>3. u[i] = Value(Insts[j].signer, Cells(label)[i], 0)
    BY <2>2, HonestValues
  <2> QED BY <2>3 DEF Code, Value
<1> HIDE DEF u
<1>4. EcdsaSatisfied(label, u)
  BY <1>1, <1>3, EcdsaOfZeros
<1> QED BY <1>2, <1>4 DEF u

LEMMA SumcheckHonest ==
    ASSUME case \in Cases, Honest, Delivered, NEW j \in 1 .. N
    PROVE  SumcheckHolds(Insts[j], Proofs[j])
<1>1. /\ VerifierRoot = Root /\ DrawAv(Expected.seed, bundle.rootA) = Av
      /\ bundle.tags = TagsMade /\ Expected = case.prover
  BY HonestRoots, HonestCall
<1>2. /\ Proofs[j].channel = Channels[j] /\ Proofs[j].input = Inputs[j]
      /\ Insts[j].label = "mac" => Proofs[j].quotients = Quotients
  BY ProofOf
<1>3. Channels[j] = InstanceChannel(Insts[j], case.prover, Root, Av, TagsMade)
  BY DEF Channels
<1>4. CASE Insts[j].label = "mac"
  <2>1. IsMdoc
    BY <1>4, InstanceFacts
  <2>2. MacSatisfied(Inputs[j], Quotients, Av, TagsMade)
    <3>1. ASSUME NEW h \in 1 .. MacHalfCount
          PROVE  /\ Inputs[j][3 * h - 2] = <<"one">> /\ Inputs[j][3 * h] = <<"share", h>>
                 /\ TagsMade[h] = Tag(h, Av, Inputs[j][3 * h - 1])
                 /\ Quotients[h] = Quotient(h, Av, Inputs[j][3 * h - 1])
      <4>1. /\ Inputs[j][3 * h - 2] = <<"one">> /\ Inputs[j][3 * h - 1] = HalfValue(h)
            /\ Inputs[j][3 * h] = <<"share", h>>
        BY <1>4, MacInputFacts
      <4> QED BY <2>1, <4>1 DEF TagsMade, Quotients
    <3> QED BY <3>1 DEF MacSatisfied
  <2> QED BY <1>1, <1>2, <1>3, <1>4, <2>2 DEF SumcheckHolds
<1>5. CASE Insts[j].label # "mac"
  <2>1. Len(Inputs[j]) = InputLen(Insts[j].label) /\ EcdsaSatisfied(Insts[j].label, Inputs[j])
    BY <1>5, EcdsaHonest
  <2> QED BY <1>1, <1>2, <1>3, <1>5, <2>1 DEF SumcheckHolds
<1> QED BY <1>4, <1>5

(* The values sent of an instance. *)
LEMMA SentHonest ==
    ASSUME case \in Cases, Honest, NEW j \in 1 .. N
    PROVE  /\ IsSequence(SentAt[j]) /\ Len(SentAt[j]) = SentCounts[j]
           /\ Insts[j].label # "mac" => \A i \in 1 .. SentCounts[j] :
                SentAt[j][i] = Value(Insts[j].signer, PrivateNames(case.prover.mode, Insts[j])[i], 0)
           /\ Insts[j].label = "mac" =>
                /\ SentCounts[j] = 10
                /\ \A i \in 1 .. 4 : SentAt[j][i] = SplitValues(Proofs[j])[i]
                /\ \A h \in 1 .. MacHalfCount : SentAt[j][4 + h] = HalfValue(h)
<1> DEFINE v == SentAt[j]
<1>1. v = SentValues(Insts[j], Proofs[j])
  BY DEF SentAt
<1>2. IsSequence(v) /\ Len(v) = SentCounts[j]
  BY <1>1, SentLen
<1>3. ASSUME Insts[j].label # "mac", NEW i \in 1 .. SentCounts[j]
      PROVE  v[i] = Value(Insts[j].signer, PrivateNames(case.prover.mode, Insts[j])[i], 0)
  <2> DEFINE names == PrivateNames(case.prover.mode, Insts[j])
  <2>1. Insts[j].label \in Labels
    BY InstanceFacts
  <2>2. SentNames(Insts[j]) = names /\ DOMAIN names = 1 .. Len(names)
    BY <1>3, <2>1, SentIsPrivate, PrivateNamesOf
  <2>3. SentCounts[j] = Len(names)
    BY <1>3 DEF SentCounts
  <2>4. v = [k \in DOMAIN names |-> CellValue(Insts[j].signer, Insts[j].label, names[k])]
    BY <1>1, <1>3, <2>2 DEF SentValues
  <2> HIDE DEF names, v
  <2>5. v[i] = CellValue(Insts[j].signer, Insts[j].label, names[i])
    BY <2>2, <2>3, <2>4
  <2> QED BY <2>5, HonestValues DEF names
<1>4. ASSUME Insts[j].label = "mac"
      PROVE  /\ SentCounts[j] = 10
             /\ \A i \in 1 .. 4 : v[i] = SplitValues(Proofs[j])[i]
             /\ \A h \in 1 .. MacHalfCount : v[4 + h] = HalfValue(h)
  <2> DEFINE a == SplitValues(Proofs[j])
             b == [h \in 1 .. MacHalfCount |-> HalfValue(h)]
  <2>1. v = a \o b /\ SentCounts[j] = 10
    BY <1>1, <1>4 DEF SentValues, SentCounts, MacHalfCount
  <2>2. IsSequence(a) /\ Len(a) = 4
    BY Tuple4 DEF SplitValues
  <2>3. IsSequence(b) /\ Len(b) = 6
    <3>1. b = [h \in 1 .. 6 |-> b[h]]
      BY DEF MacHalfCount
    <3> HIDE DEF b
    <3> QED BY <3>1, Tabulated
  <2>4. \A h \in 1 .. 6 : b[h] = HalfValue(h)
    BY DEF MacHalfCount
  <2> HIDE DEF a, b, v
  <2>5. IsSequence(a) /\ IsSequence(b)
    BY <2>2, <2>3
  <2>6. /\ \A i \in 1 .. Len(a) : (a \o b)[i] = a[i]
        /\ \A i \in 1 .. Len(b) : (a \o b)[Len(a) + i] = b[i]
    BY <2>5, Joined
  <2>7. \A i \in 1 .. 4 : v[i] = a[i]
    BY <2>1, <2>2, <2>6
  <2>8. \A h \in 1 .. 6 : v[4 + h] = HalfValue(h)
    BY <2>1, <2>2, <2>3, <2>4, <2>6
  <2> QED BY <2>1, <2>7, <2>8 DEF a, MacHalfCount
<1> QED BY <1>2, <1>3, <1>4

LEMMA TakenHonest ==
    ASSUME case \in Cases, Valued(N), NEW j \in 1 .. N
    PROVE  TakenAt(j) = SentAt[j]
<1>1. Parted(SentAt, SentCounts, N, Mark)
  BY SentParts
<1> QED BY <1>1, PartCut DEF Valued, TakenAt

-----------------------------------------------------------------------------
(* The verifier's walk of an honest bundle.                                *)

(* The families of a signature send one final point and its operands. *)
LEMMA PointsHonest ==
    ASSUME case \in Cases, Honest, NEW s, NEW j \in 1 .. N
    PROVE  /\ Insts[j] = Instance(s, "c11") \/ Insts[j] = Instance(s, "c12") =>
                SentAt[j] = [i \in 1 .. 6 |-> Value(s, PointNames[i], 0)]
           /\ Insts[j] = Instance(s, "c14") => SentAt[j] = [i \in 1 .. 1 |-> Value(s, "rx", 0)]
<1> DEFINE v == SentAt[j]
<1>1. /\ IsSequence(v) /\ Len(v) = SentCounts[j]
      /\ Insts[j].label # "mac" => \A i \in 1 .. SentCounts[j] :
            v[i] = Value(Insts[j].signer, PrivateNames(case.prover.mode, Insts[j])[i], 0)
  BY SentHonest
<1> HIDE DEF v
<1>2. ASSUME Insts[j] = Instance(s, "c11") \/ Insts[j] = Instance(s, "c12")
      PROVE  v = [i \in 1 .. 6 |-> Value(s, PointNames[i], 0)]
  <2>1. Insts[j].label \in {"c11", "c12"} /\ Insts[j].label # "mac" /\ Insts[j].signer = s
    BY <1>2 DEF Instance
  <2>2. PrivateNames(case.prover.mode, Insts[j]) = PointNames
    BY <2>1 DEF PrivateNames
  <2>3. SentCounts[j] = 6
    BY <2>1, <2>2, PointNamesOf DEF SentCounts
  <2>4. \A i \in 1 .. 6 : v[i] = Value(s, PointNames[i], 0)
    BY <1>1, <2>1, <2>2, <2>3
  <2>5. v = [i \in 1 .. 6 |-> v[i]]
    BY <1>1, <2>3 DEF IsSequence
  <2> QED BY <2>4, <2>5
<1>3. ASSUME Insts[j] = Instance(s, "c14")
      PROVE  v = [i \in 1 .. 1 |-> Value(s, "rx", 0)]
  <2>1. Insts[j].label = "c14" /\ Insts[j].signer = s
    BY <1>3 DEF Instance
  <2>2. PrivateNames(case.prover.mode, Insts[j]) = <<"rx">>
    BY <2>1 DEF PrivateNames
  <2>3. Len(<<"rx">>) = 1 /\ <<"rx">>[1] = "rx"
    BY Single
  <2>4. SentCounts[j] = 1
    BY <2>1, <2>2, <2>3 DEF SentCounts
  <2>5. \A i \in 1 .. 1 : v[i] = Value(s, "rx", 0)
    BY <1>1, <2>1, <2>2, <2>3, <2>4
  <2>6. v = [i \in 1 .. 1 |-> v[i]]
    BY <1>1, <2>4 DEF IsSequence
  <2> QED BY <2>5, <2>6
<1> QED BY <1>2, <1>3 DEF v

LEMMA AgreeingFamilies ==
    ASSUME NEW s, NEW r, DOMAIN r = Kept,
           r.c11 = [i \in 1 .. 6 |-> Value(s, PointNames[i], 0)],
           r.c12 = [i \in 1 .. 6 |-> Value(s, PointNames[i], 0)],
           r.c14 = [i \in 1 .. 1 |-> Value(s, "rx", 0)]
    PROVE  FamiliesAgree(r)
<1>1. r.c11[5] = r.c14[1]
  BY PointNamesOf
<1>2. r.c11 = r.c12
  OBVIOUS
<1> DEFINE v == [i \in 1 .. 6 |-> Value(s, PointNames[i], 0)]
           x == [i \in 1 .. 1 |-> Value(s, "rx", 0)]
<1>3. v = [i \in 1 .. 6 |-> v[i]] /\ x = [i \in 1 .. 1 |-> x[i]] /\ r.c11 = v /\ r.c14 = x
  OBVIOUS
<1> HIDE DEF v, x
<1>4. Len(v) = 6 /\ Len(x) = 1 /\ Len(<<>>) = 0
  BY <1>3, Tabulated, Single
<1>5. v # <<>> /\ x # <<>>
  <2>1. Len(v) # Len(<<>>) /\ Len(x) # Len(<<>>)
    BY <1>4
  <2> QED BY <2>1
<1>6. \A family \in DOMAIN r : r[family] # <<>>
  BY <1>2, <1>3, <1>5 DEF Kept
<1> QED BY <1>1, <1>2, <1>6 DEF FamiliesAgree

(* What the verifier has kept of a family it has passed. *)
LEMMA KeptHonest ==
    ASSUME case \in Cases, Honest, Valued(N), NEW s, NEW j \in 1 .. N, KeptOf(j)
    PROVE  /\ Insts[j] = Instance(s, "c11") =>
                seen.signers[s + 1]["c11"] = [i \in 1 .. 6 |-> Value(s, PointNames[i], 0)]
           /\ Insts[j] = Instance(s, "c12") =>
                seen.signers[s + 1]["c12"] = [i \in 1 .. 6 |-> Value(s, PointNames[i], 0)]
           /\ Insts[j] = Instance(s, "c14") =>
                seen.signers[s + 1]["c14"] = [i \in 1 .. 1 |-> Value(s, "rx", 0)]
<1>1. TakenAt(j) = SentAt[j]
  BY TakenHonest
<1>2. /\ Insts[j] = Instance(s, "c11") \/ Insts[j] = Instance(s, "c12") =>
            TakenAt(j) = [i \in 1 .. 6 |-> Value(s, PointNames[i], 0)]
      /\ Insts[j] = Instance(s, "c14") => TakenAt(j) = [i \in 1 .. 1 |-> Value(s, "rx", 0)]
  BY <1>1, PointsHonest
<1>3. Insts[j].label \in Kept => seen.signers[Insts[j].signer + 1][Insts[j].label] = TakenAt(j)
  BY DEF KeptOf
<1>4. ASSUME NEW l \in Kept, Insts[j] = Instance(s, l)
      PROVE  seen.signers[s + 1][l] = TakenAt(j)
  <2>1. Insts[j].label = l /\ Insts[j].signer = s
    BY <1>4 DEF Instance
  <2> QED BY <1>3, <2>1
<1>5. "c11" \in Kept /\ "c12" \in Kept /\ "c14" \in Kept
  BY DEF Kept
<1> QED BY <1>2, <1>4, <1>5

(* A signature's last family completes what is judged early. *)
LEMMA JudgedHonest ==
    ASSUME Shaped, InInstances, Honest, Valued(N), at <= Len(VerifierInsts)
    PROVE  JudgedEarly(Insts[at], Remember(Insts[at], SentAt[at]))
<1> DEFINE inst == Insts[at]
           s == inst.signer
           n == Len(case.prover.projections)
<1>1. /\ case \in Cases /\ N \in Nat /\ at \in 1 .. N /\ SeenShaped
      /\ IsCall(case.prover) /\ Insts = ProverInstances(case.prover)
      /\ Expected.projections = case.prover.projections
  BY AtAnInstance, CaseFacts, HonestCall DEF InInstances
<1> SUFFICES ASSUME inst.label = "c14"
             PROVE  FamiliesAgree(Remember(inst, SentAt[at]).signers[s + 1])
  BY DEF JudgedEarly
<1>2. s \in 0 .. n - 1 /\ inst = Instance(s, "c14")
  BY <1>1, InstanceFacts
<1>3. n \in Nat /\ DOMAIN Expected.projections = 1 .. n
  <2>1. Expected.projections \in Seq([PublicFields -> Int])
    BY <1>1 DEF IsCall
  <2> QED BY <1>1, <2>1, LenProperties
<1> HIDE DEF s, n, inst
<1>4. ASSUME NEW f \in 1 .. 6
      PROVE  6 * s + f \in 1 .. N /\ Insts[6 * s + f] = Instance(s, Families[f])
  BY <1>1, <1>2, FamilyPlace DEF N, n
<1>5. at = 6 * s + 6
  <2>1. Insts[6 * s + 6] = Insts[at] /\ 6 * s + 6 \in 1 .. N
    BY <1>2, <1>4, FamilyLabels DEF inst
  <2> QED BY <1>1, <2>1, MetOnce DEF N
<1>6. s \in Int /\ 6 * s + 4 \in 1 .. at - 1 /\ 6 * s + 5 \in 1 .. at - 1
  <2>1. s \in Nat
    BY <1>2, <1>3
  <2> QED BY <1>5, <2>1
<1>7. KeptOf(6 * s + 4) /\ KeptOf(6 * s + 5)
  BY <1>6 DEF InInstances, Passed
<1>8. seen.signers[s + 1]["c11"] = [i \in 1 .. 6 |-> Value(s, PointNames[i], 0)]
  <2>1. Insts[6 * s + 4] = Instance(s, "c11") /\ 6 * s + 4 \in 1 .. N
    BY <1>4, FamilyLabels
  <2> QED BY <1>1, <1>7, <2>1, KeptHonest
<1>9. seen.signers[s + 1]["c12"] = [i \in 1 .. 6 |-> Value(s, PointNames[i], 0)]
  <2>1. Insts[6 * s + 5] = Instance(s, "c12") /\ 6 * s + 5 \in 1 .. N
    BY <1>4, FamilyLabels
  <2> QED BY <1>1, <1>7, <2>1, KeptHonest
<1>10. SentAt[at] = [i \in 1 .. 1 |-> Value(s, "rx", 0)]
  BY <1>1, <1>2, PointsHonest DEF inst
<1> DEFINE taken == SentAt[at]
           r == Remember(inst, taken).signers[s + 1]
<1>11. DOMAIN r = Kept /\ r["c11"] = seen.signers[s + 1]["c11"]
       /\ r["c12"] = seen.signers[s + 1]["c12"] /\ r["c14"] = taken
  <2>1. s + 1 \in DOMAIN seen.signers /\ DOMAIN seen.signers[s + 1] = Kept /\ "signers" \in DOMAIN seen
    <3>1. s + 1 \in 1 .. n
      BY <1>2, <1>3
    <3> QED BY <1>1, <1>3, <3>1 DEF SeenShaped, SeenFields
  <2>2. inst.label = "c14" /\ inst.signer = s
    BY <1>2 DEF Instance
  <2> HIDE DEF taken
  <2>3. Remember(inst, taken) = [seen EXCEPT !.signers[s + 1]["c14"] = taken]
    BY <2>2 DEF Remember
  <2>4. Remember(inst, taken).signers[s + 1] = [seen.signers[s + 1] EXCEPT !["c14"] = taken]
    BY <2>1, <2>3
  <2> QED BY <2>1, <2>4 DEF Kept
<1> HIDE DEF r, taken
<1>12. FamiliesAgree(r)
  <2>1. taken = [i \in 1 .. 1 |-> Value(s, "rx", 0)]
    BY <1>10 DEF taken
  <2>2. /\ r.c11 = [i \in 1 .. 6 |-> Value(s, PointNames[i], 0)]
        /\ r.c12 = [i \in 1 .. 6 |-> Value(s, PointNames[i], 0)]
        /\ r.c14 = [i \in 1 .. 1 |-> Value(s, "rx", 0)]
    BY <1>8, <1>9, <1>11, <2>1
  <2>3. DOMAIN r = Kept
    BY <1>11
  <2> QED BY <2>2, <2>3, AgreeingFamilies
<1> QED BY <1>12 DEF r, taken

LEMMA VerifyInstanceHonest ==
    ASSUME Shaped, InInstances, Honest, HonestInstances, VerifyInstance
    PROVE  HonestInstances'
<1> DEFINE inst == Insts[at]
           entry == Proofs[at]
           taken == SentAt[at]
<1>1. /\ case \in Cases /\ N \in Nat /\ at \in 1 .. N /\ at <= Len(VerifierInsts)
      /\ VerifierInsts[at] = inst /\ layouts.verifier[at] = LayoutAt[at]
      /\ VerifierRoot = Root /\ Delivered /\ cursor = Mark[at]
      /\ TakenCount(inst) = SentCounts[at] /\ Taken(inst) = TakenAt(at)
  BY AtAnInstance DEF VerifyInstance, InInstances
<1>2. /\ Whole /\ Valued(N) /\ Claimed(at - 1) /\ phase = "instances"
      /\ CommittedLen(layouts.verifier) = Place[N + 1]
  BY DEF HonestInstances, Whole
<1>3. bundle.entries[at] = entry
  BY <1>1, <1>2 DEF Whole, Entered
<1>4. Taken(inst) = taken
  BY <1>1, <1>2, TakenHonest
<1>5. SumcheckHolds(inst, entry)
  BY <1>1, SumcheckHonest
<1>6. ~(cursor + TakenCount(inst) > Len(bundle.values))
  <2>1. Len(bundle.values) = Mark[N + 1]
    BY <1>2 DEF Valued, Strung
  <2>2. Parted(SentAt, SentCounts, N, Mark)
    BY <1>1, SentParts
  <2>3. /\ Mark[at + 1] = Mark[at] + SentCounts[at] /\ Mark[at + 1] \in Nat
        /\ \A k \in at + 1 .. N + 1 : Mark[at + 1] <= Mark[k] /\ Mark[k] \in Nat
    BY <1>1, <2>2, PartedFacts
  <2>4. N + 1 \in at + 1 .. N + 1
    BY <1>1
  <2>5. Mark[at + 1] <= Mark[N + 1] /\ Mark[N + 1] \in Nat
    BY <2>3, <2>4
  <2> QED BY <1>1, <2>1, <2>3, <2>5
<1>7. inst.label = "mac" => SplitAgrees(entry, taken)
  <2> HAVE inst.label = "mac"
  <2> DEFINE split == SplitValues(entry)
             cut == SubSeq(taken, 1, 4)
  <2>1. \A i \in 1 .. 4 : taken[i] = split[i]
    BY <1>1, SentHonest
  <2>2. IsSequence(split) /\ Len(split) = 4
    BY Tuple4 DEF SplitValues
  <2> HIDE DEF taken, split
  <2>3. IsSequence(cut) /\ Len(cut) = 4 /\ \A i \in 1 .. 4 : cut[i] = taken[i]
    <3>1. IsSequence(cut) /\ Len(cut) = 4 - 1 + 1 /\ \A i \in 1 .. 4 - 1 + 1 : cut[i] = taken[1 + i - 1]
      BY Cut
    <3>2. 4 - 1 + 1 = 4 /\ \A i \in 1 .. 4 : 1 + i - 1 = i
      OBVIOUS
    <3> HIDE DEF cut
    <3> QED BY <3>1, <3>2
  <2> HIDE DEF cut
  <2>4. cut = split
    BY <2>1, <2>2, <2>3, SameSequence
  <2> QED BY <2>4 DEF SplitAgrees, cut, split, taken
<1>8. JudgedEarly(inst, Remember(inst, taken))
  BY <1>1, <1>2, JudgedHonest
<1>9. VerifierClaimsOf(inst, LayoutAt[at], entry, taken) = ClaimsAt[at]
  <2>1. Expected.seed = case.prover.seed /\ Expected.projections = case.prover.projections
        /\ Expected.mode = case.prover.mode
    BY <1>1, HonestCall
  <2>2. inst.label \in Labels
    BY <1>1, InstanceFacts
  <2>3. ClaimsAt[at] = ClaimsMadeOf(at, taken)
    BY <1>1 DEF ClaimsAt
  <2>4. CASE inst.label = "mac"
    BY <1>1, <1>2, <2>1, <2>3, <2>4 DEF VerifierClaimsOf, ClaimsMadeOf
  <2>5. CASE inst.label # "mac"
    <3>1. TakenNames(inst) = PrivateNames(Expected.mode, inst)
      BY <2>2, <2>5, TakenIsPrivate
    <3> QED BY <1>1, <2>1, <2>3, <2>5, <3>1 DEF VerifierClaimsOf, ClaimsMadeOf
  <2> QED BY <2>4, <2>5
<1> HIDE DEF inst, entry, taken
<1>10. /\ claims' = claims \o ClaimsAt[at] /\ at' = at + 1 /\ case' = case /\ phase' = phase
       /\ layouts' = layouts /\ bundle' = bundle
  BY <1>1, <1>3, <1>4, <1>5, <1>6, <1>7, <1>8, <1>9 DEF VerifyInstance
<1>11. Strung(claims \o ClaimsAt[at], ClaimsAt, ClaimMark, at)
  <2>1. Parted(ClaimsAt, ClaimCounts, N, ClaimMark)
    BY <1>1, ClaimParts
  <2>2. Strung(claims, ClaimsAt, ClaimMark, at - 1)
    BY <1>2 DEF Claimed
  <2> QED BY <1>1, <2>1, <2>2, StrungGrows
<1>12. Claimed(at - 1)'
  <2>1. ClaimsAt' = ClaimsAt /\ ClaimMark' = ClaimMark /\ at' - 1 = at
    BY <1>1, <1>10, HonestKept
  <2> QED BY <1>10, <1>11, <2>1 DEF Claimed
<1>13. Whole'
  BY <1>2, <1>10, WholeStays
<1>14. CommittedLen(layouts.verifier)' = Place'[N' + 1]
  BY <1>2, <1>10, CaseKept
<1> QED BY <1>2, <1>10, <1>12, <1>13, <1>14 DEF HonestInstances


-----------------------------------------------------------------------------
(* Every claim of an honest run holds of what was committed.               *)

AllHold(s) == IsSequence(s) /\ \A i \in 1 .. Len(s) : Holds(s[i])
HonestBundle == case \in Cases /\ Honest /\ Whole

LEMMA JoinedHold ==
    ASSUME NEW s, NEW t, AllHold(s), AllHold(t)
    PROVE  AllHold(s \o t)
<1>1. /\ IsSequence(s) /\ IsSequence(t)
      /\ \A i \in 1 .. Len(s) : Holds(s[i])
      /\ \A i \in 1 .. Len(t) : Holds(t[i])
  BY DEF AllHold
<1>2. /\ IsSequence(s \o t) /\ Len(s \o t) = Len(s) + Len(t)
      /\ \A i \in 1 .. Len(s) : (s \o t)[i] = s[i]
      /\ \A i \in 1 .. Len(t) : (s \o t)[Len(s) + i] = t[i]
  BY <1>1, Joined
<1>3. Len(s) \in Nat /\ Len(t) \in Nat
  BY <1>1 DEF IsSequence
<1>4. ASSUME NEW i \in 1 .. Len(s \o t)
      PROVE  Holds((s \o t)[i])
  <2>1. CASE i \in 1 .. Len(s)
    BY <1>1, <1>2, <2>1
  <2>2. CASE i \notin 1 .. Len(s)
    <3> DEFINE k == i - Len(s)
    <3>1. k \in 1 .. Len(t) /\ Len(s) + k = i
      BY <1>2, <1>3, <2>2
    <3> HIDE DEF k
    <3>2. (s \o t)[Len(s) + k] = t[k]
      BY <1>2, <3>1
    <3>3. (s \o t)[i] = t[k]
      BY <3>1, <3>2
    <3> QED BY <1>1, <3>1, <3>3
  <2> QED BY <2>1, <2>2
<1> QED BY <1>2, <1>4 DEF AllHold

LEMMA SingleHolds ==
    ASSUME NEW c, Holds(c)
    PROVE  AllHold(<<c>>)
<1>1. IsSequence(<<c>>) /\ Len(<<c>>) = 1 /\ <<c>>[1] = c
  BY Single
<1> QED BY <1>1 DEF AllHold

LEMMA StrungHold ==
    ASSUME NEW parts, NEW counts, NEW n, NEW m, Parted(parts, counts, n, m),
           NEW s, Strung(s, parts, m, n), \A j \in 1 .. n : AllHold(parts[j])
    PROVE  AllHold(s)
<1>1. ASSUME NEW k \in 1 .. Len(s)
      PROVE  Holds(s[k])
  <2>1. PICK j \in 1 .. n : \E i \in 1 .. Len(parts[j]) : k = m[j] + i /\ s[k] = parts[j][i]
    BY StrungElement
  <2> QED BY <2>1 DEF AllHold
<1> QED BY <1>1 DEF AllHold, Strung

LEMMA NoneHold == AllHold(<<>>)
<1>1. IsSequence(<<>>) /\ Len(<<>>) = 0
  BY Single
<1>2. \A i \in 1 .. 0 : FALSE
  OBVIOUS
<1> QED BY <1>1, <1>2 DEF AllHold

(* What a claim says of the values it is about. *)
Opens(c, values) ==
    IF c.point[1] = "fixed" THEN values[c.point[2]] = c.value
    ELSE c.value = MleAt(values, c.point)

LEMMA LayoutFacts ==
    ASSUME case \in Cases, NEW j \in 1 .. N
    PROVE  /\ LayoutAt[j].input = Place[j] /\ LayoutAt[j].inputLen = Len(Inputs[j])
           /\ LayoutAt[j].pad = Place[j] + Len(Inputs[j])
           /\ LayoutAt[j].padLen = Len(Pads(Insts[j].label))
           /\ Place[j] \in Nat /\ Len(Inputs[j]) \in Nat \ {0}
           /\ Len(Pads(Insts[j].label)) \in Nat
           /\ Place[j] + Len(Inputs[j]) + Len(Pads(Insts[j].label)) <= Place[N + 1]
           /\ Place[N + 1] \in Nat
<1> DEFINE l == Len(Inputs[j])
           p == Len(Pads(Insts[j].label))
           x == Place[j]
           e == Place[N + 1]
<1>1. Insts[j].label \in Labels /\ N \in Nat
  BY InstanceFacts, CaseFacts
<1>2. PadLen[Insts[j].label] \in Nat /\ p = PadLen[Insts[j].label]
  BY <1>1, PadFacts
<1>3. /\ Place \in [1 .. N + 1 -> Nat] /\ InputLen(Insts[j].label) = l /\ l \in Nat \ {0}
      /\ Place[j + 1] = x + l + PadLen[Insts[j].label]
      /\ \A k \in j + 1 .. N + 1 : Place[j + 1] <= Place[k]
  BY PlaceSteps
<1>4. j \in 1 .. N + 1 /\ N + 1 \in 1 .. N + 1 /\ N + 1 \in j + 1 .. N + 1
  BY <1>1
<1>5. x \in Nat /\ e \in Nat /\ x + l + p <= e
  BY <1>2, <1>3, <1>4
<1>6. LayoutAt[j] = Layout(x, l, p)
  BY <1>2, <1>3 DEF LayoutAt
<1>7. p \in Nat
  BY <1>2
<1> HIDE DEF l, p, x, e
<1>8. /\ LayoutAt[j].input = x /\ LayoutAt[j].inputLen = l /\ LayoutAt[j].pad = x + l
      /\ LayoutAt[j].padLen = p
  BY <1>6 DEF Layout
<1> QED BY <1>3, <1>5, <1>7, <1>8 DEF l, p, x, e

(* A claim about values that lie in group A. *)
LEMMA PartHolds ==
    ASSUME HonestBundle, NEW off \in Nat, NEW part, IsSequence(part), Len(part) \in Nat \ {0},
           off + Len(part) <= Place[N + 1],
           \A i \in 1 .. Len(part) : bundle.groupA[off + i] = part[i],
           NEW c, c.offset = off, c.len = Len(part), Opens(c, part)
    PROVE  Holds(c)
<1> DEFINE g == bundle.groupA
           lo == off + 1
           hi == off + Len(part)
           first == GroupBOffset(Len(g))
<1>1. IsSequence(g) /\ Len(g) = Place[N + 1]
  BY DEF HonestBundle, Whole, Committed, Spanned, Strung
<1>2. Len(g) \in Nat
  BY <1>1 DEF IsSequence
<1>3. first \in Int /\ first >= Len(g)
  <2>1. RowLen \in Nat \ {0}
    BY BundleAssumption
  <2>2. first >= Len(g)
    BY <1>2, RowsCover
  <2>3. first \in Int
    BY <1>2, <2>1 DEF GroupBOffset, RowCount
  <2> QED BY <2>2, <2>3
<1> HIDE DEF first
<1>4. ~(c.offset >= first)
  BY <1>1, <1>2, <1>3
<1>5. SubSeq(g, lo, hi) = part
  <2> DEFINE u == SubSeq(g, lo, hi)
  <2>1. /\ lo \in Int /\ hi \in Int /\ lo <= hi + 1 /\ hi - lo + 1 = Len(part)
        /\ \A i \in 1 .. Len(part) : lo + i - 1 = off + i
    OBVIOUS
  <2> HIDE DEF lo, hi
  <2>2. IsSequence(u) /\ Len(u) = hi - lo + 1 /\ \A i \in 1 .. hi - lo + 1 : u[i] = g[lo + i - 1]
    BY <2>1, Cut
  <2> HIDE DEF u
  <2>3. Len(u) = Len(part)
    BY <2>1, <2>2
  <2>4. ASSUME NEW i \in 1 .. Len(u)
        PROVE  u[i] = part[i]
    <3>1. i \in 1 .. Len(part) /\ i \in 1 .. hi - lo + 1 /\ lo + i - 1 = off + i
      BY <2>1, <2>3
    <3>2. u[i] = g[lo + i - 1]
      BY <2>2, <3>1
    <3>3. g[off + i] = part[i]
      BY <3>1
    <3> QED BY <3>1, <3>2, <3>3
  <2> QED BY <2>2, <2>3, <2>4, SameSequence DEF u, lo, hi
<1>6. Holds(c) <=> Opens(c, SubSeq(g, lo, hi))
  BY <1>4 DEF Holds, Opens, first
<1> HIDE DEF lo, hi
<1> QED BY <1>5, <1>6

(* A claim about an instance's input or its pads. *)
LEMMA InputHolds ==
    ASSUME HonestBundle, NEW j \in 1 .. N, NEW c,
           c.offset = LayoutAt[j].input, c.len = LayoutAt[j].inputLen, Opens(c, Inputs[j])
    PROVE  Holds(c)
<1> DEFINE off == Place[j]
           part == Inputs[j]
           p == Len(Pads(Insts[j].label))
<1>1. /\ case \in Cases /\ Strung(bundle.groupA, Spans, Place, N)
  BY DEF HonestBundle, Whole, Committed, Spanned
<1>2. /\ c.offset = off /\ c.len = Len(part) /\ off \in Nat /\ Len(part) \in Nat \ {0}
      /\ p \in Nat /\ off + Len(part) + p <= Place[N + 1] /\ Place[N + 1] \in Nat
  BY <1>1, LayoutFacts
<1>3. /\ Len(Spans[j]) = Len(part) + p /\ \A i \in 1 .. Len(part) : Spans[j][i] = part[i]
  BY <1>1, SpanParts
<1>4. \A i \in 1 .. Len(Spans[j]) : bundle.groupA[off + i] = Spans[j][i]
  BY <1>1 DEF Strung
<1>5. IsSequence(part)
  BY <1>1, InputFacts
<1>6. Opens(c, part)
  OBVIOUS
<1> HIDE DEF off, part, p
<1>7. \A i \in 1 .. Len(part) : i \in 1 .. Len(Spans[j])
  BY <1>2, <1>3
<1>8. \A i \in 1 .. Len(part) : bundle.groupA[off + i] = part[i]
  BY <1>3, <1>4, <1>7
<1>9. off + Len(part) <= Place[N + 1]
  BY <1>2
<1> QED BY <1>2, <1>5, <1>6, <1>8, <1>9, PartHolds

LEMMA PadsHold ==
    ASSUME HonestBundle, NEW j \in 1 .. N, LayoutAt[j].padLen # 0, NEW c,
           c.offset = LayoutAt[j].pad, c.len = LayoutAt[j].padLen,
           Opens(c, Pads(Insts[j].label))
    PROVE  Holds(c)
<1> DEFINE x == Place[j]
           l == Len(Inputs[j])
           part == Pads(Insts[j].label)
           off == x + l
<1>1. /\ case \in Cases /\ Strung(bundle.groupA, Spans, Place, N)
  BY DEF HonestBundle, Whole, Committed, Spanned
<1>2. /\ c.offset = x + l /\ c.len = Len(part) /\ x \in Nat /\ l \in Nat
      /\ Len(part) \in Nat \ {0} /\ x + l + Len(part) <= Place[N + 1]
  BY <1>1, LayoutFacts
<1>3. /\ Len(Spans[j]) = l + Len(part) /\ \A i \in 1 .. Len(part) : Spans[j][l + i] = part[i]
  BY <1>1, SpanParts
<1>4. \A i \in 1 .. Len(Spans[j]) : bundle.groupA[x + i] = Spans[j][i]
  BY <1>1 DEF Strung
<1>5. IsSequence(part)
  <2>1. Insts[j].label \in Labels
    BY <1>1, InstanceFacts
  <2> QED BY <2>1, PadFacts
<1>6. Opens(c, part)
  OBVIOUS
<1> HIDE DEF x, l, part
<1>7. \A i \in 1 .. Len(part) : l + i \in 1 .. Len(Spans[j]) /\ x + (l + i) = off + i
  BY <1>2, <1>3
<1>8. \A i \in 1 .. Len(part) : bundle.groupA[off + i] = part[i]
  <2> TAKE i \in 1 .. Len(part)
  <2>1. bundle.groupA[x + (l + i)] = Spans[j][l + i]
    BY <1>4, <1>7
  <2> QED BY <1>3, <1>7, <2>1
<1>9. off \in Nat /\ off + Len(part) <= Place[N + 1] /\ c.offset = off
  BY <1>2
<1> HIDE DEF off
<1> QED BY <1>2, <1>5, <1>6, <1>8, <1>9, PartHolds

(* A claim about a cell. *)
LEMMA CellHolds ==
    ASSUME HonestBundle, NEW j \in 1 .. N, NEW index, NEW value, Inputs[j][index] = value
    PROVE  Holds(FixedClaim(LayoutAt[j], index, value))
<1> DEFINE c == FixedClaim(LayoutAt[j], index, value)
<1>1. /\ c.offset = LayoutAt[j].input /\ c.len = LayoutAt[j].inputLen
      /\ c.point = <<"fixed", index>> /\ c.value = value
  BY DEF FixedClaim, Claim, Fixed
<1> HIDE DEF c
<1>2. Opens(c, Inputs[j])
  BY <1>1 DEF Opens
<1>3. Holds(c)
  BY <1>1, <1>2, InputHolds
<1> QED BY <1>3 DEF c

LEMMA InputClaimsHold ==
    ASSUME HonestBundle, NEW j \in 1 .. N
    PROVE  AllHold(InputClaims(LayoutAt[j], Proofs[j]))
<1> DEFINE lay == LayoutAt[j]
           u == InputClaims(lay, Proofs[j])
           points == InputPoints(Proofs[j].channel)
<1>1. Proofs[j].input = Inputs[j]
  BY ProofOf
<1>2. u = [i \in 1 .. 2 |-> Claim(lay.input, lay.inputLen, points[i], MleAt(Inputs[j], points[i]))]
  BY <1>1 DEF InputClaims
<1>3. \A i \in 1 .. 2 : points[i][1] # "fixed"
  BY DEF InputPoints
<1> HIDE DEF points, u
<1>4. u = [i \in 1 .. 2 |-> u[i]]
  BY <1>2
<1>5. IsSequence(u) /\ Len(u) = 2
  BY <1>4, Tabulated
<1>6. ASSUME NEW i \in 1 .. 2
      PROVE  Holds(u[i])
  <2> DEFINE c == u[i]
  <2>1. /\ c.offset = lay.input /\ c.len = lay.inputLen /\ c.point = points[i]
        /\ c.value = MleAt(Inputs[j], points[i])
    BY <1>2 DEF Claim
  <2> HIDE DEF c
  <2>2. Opens(c, Inputs[j])
    BY <1>3, <2>1 DEF Opens
  <2>3. Holds(c)
    BY <2>1, <2>2, InputHolds
  <2> QED BY <2>3 DEF c
<1> QED BY <1>5, <1>6 DEF AllHold, u

LEMMA PadClaimsHold ==
    ASSUME HonestBundle, NEW j \in 1 .. N
    PROVE  AllHold(PadClaims(LayoutAt[j], Proofs[j], Root, case.prover.seed))
<1> DEFINE lay == LayoutAt[j]
           point == PadPoint(lay, Root, case.prover.seed)
           c == Claim(lay.pad, lay.padLen, point, MleAt(Pads(Insts[j].label), point))
<1>1. Proofs[j].pads = Pads(Insts[j].label)
  BY ProofOf
<1>2. PadClaims(lay, Proofs[j], Root, case.prover.seed)
            = IF lay.padLen = 0 THEN <<>> ELSE <<c>>
  BY <1>1 DEF PadClaims
<1>3. ASSUME lay.padLen # 0
      PROVE  Holds(c)
  <2>1. /\ c.offset = lay.pad /\ c.len = lay.padLen /\ c.point = point
        /\ c.value = MleAt(Pads(Insts[j].label), point)
    BY DEF Claim
  <2>2. point[1] # "fixed"
    BY DEF PadPoint
  <2> HIDE DEF c, point
  <2>3. Opens(c, Pads(Insts[j].label))
    BY <2>1, <2>2 DEF Opens
  <2> QED BY <1>3, <2>1, <2>3, PadsHold
<1> HIDE DEF c
<1>4. lay.padLen # 0 => AllHold(<<c>>)
  BY <1>3, SingleHolds
<1> QED BY <1>2, <1>4, NoneHold

LEMMA PublicClaimsHold ==
    ASSUME HonestBundle, NEW j \in 1 .. N, Insts[j].label # "mac"
    PROVE  AllHold(PublicClaims(Insts[j], case.prover.projections[Insts[j].signer + 1],
                                LayoutAt[j]))
<1> DEFINE inst == Insts[j]
           lay == LayoutAt[j]
           label == inst.label
           projection == case.prover.projections[inst.signer + 1]
           c(name) == PublicClaim(inst, projection, lay, name)
           v(name) == FixedClaim(lay, Position(label, name),
                                 Value(inst.signer, name, projection[name]))
<1>1. case \in Cases /\ Honest
  BY DEF HonestBundle
<1>2. label \in Labels /\ inst.signer \in 0 .. Len(case.prover.projections) - 1
  BY <1>1, InstanceFacts
<1>3. projection \in [PublicFields -> Int] /\ inst.signer + 1 \in DOMAIN case.prover.projections
  <2>1. case.prover.projections \in Seq([PublicFields -> Int])
    BY <1>1, CaseFacts DEF IsCall
  <2>2. Len(case.prover.projections) \in Nat
    BY <2>1, LenProperties
  <2>3. inst.signer + 1 \in 1 .. Len(case.prover.projections)
    BY <1>2, <2>2
  <2>4. /\ DOMAIN case.prover.projections = 1 .. Len(case.prover.projections)
        /\ \A i \in 1 .. Len(case.prover.projections) :
              case.prover.projections[i] \in [PublicFields -> Int]
    BY <2>1, LenProperties, ElementOfSeq
  <2> QED BY <2>3, <2>4
<1>4. ASSUME NEW name \in PublicNames(label), projection[name] # None
      PROVE  projection[name] = 0
  <2>1. name \in PublicFields
    BY DEF PublicNames, PublicFields
  <2>2. name \in DOMAIN projection
    BY <1>3, <2>1
  <2>3. projection[name] \in {None, 0}
    BY <1>1, <1>3, <2>2 DEF Honest
  <2> QED BY <1>4, <2>3
<1>5. ASSUME NEW name \in PublicNames(label), projection[name] # None
      PROVE  Holds(v(name))
  <2> DEFINE p == Position(label, name)
             w == Value(inst.signer, name, projection[name])
  <2>1. PICK k \in DOMAIN Cells(label) : Cells(label)[k] = name
    BY <1>2, PublicCells
  <2>2. p \in 1 .. Len(Cells(label)) /\ Cells(label)[p] = name
    BY <1>2, <2>1, PositionHolds
  <2>3. p \in DOMAIN Cells(label)
    BY <1>2, <2>2, CellsOfLabel
  <2>4. Inputs[j][p] = CellValue(inst.signer, label, name)
    BY <1>1, <2>2, <2>3, InputFacts
  <2>5. Inputs[j][p] = w
    BY <1>1, <1>4, <1>5, <2>4, HonestValues
  <2> HIDE DEF p, w
  <2>6. Holds(FixedClaim(lay, p, w))
    BY <2>5, CellHolds
  <2> QED BY <2>6 DEF p, w
<1>6. \A name : c(name) = IF name \in PublicNames(label) /\ projection[name] # None
                          THEN <<v(name)>> ELSE <<>>
  BY DEF PublicClaim
<1>7. PublicClaims(inst, projection, lay) = c("z") \o c("r") \o c("s") \o c("qx") \o c("qy")
  BY DEF PublicClaims
<1> HIDE DEF c, v, projection, lay
<1>8. ASSUME NEW name
      PROVE  AllHold(c(name))
  <2>1. CASE name \in PublicNames(label) /\ projection[name] # None
    <3>1. AllHold(<<v(name)>>)
      BY <1>5, <2>1, SingleHolds
    <3> QED BY <1>6, <2>1, <3>1
  <2>2. CASE ~(name \in PublicNames(label) /\ projection[name] # None)
    BY <1>6, <2>2, NoneHold
  <2> QED BY <2>1, <2>2
<1>9. AllHold(c("z") \o c("r"))
  BY <1>8, JoinedHold
<1>10. AllHold(c("z") \o c("r") \o c("s"))
  BY <1>8, <1>9, JoinedHold
<1>11. AllHold(c("z") \o c("r") \o c("s") \o c("qx"))
  BY <1>8, <1>10, JoinedHold
<1>12. AllHold(c("z") \o c("r") \o c("s") \o c("qx") \o c("qy"))
  BY <1>8, <1>11, JoinedHold
<1> QED BY <1>7, <1>12 DEF projection, lay

LEMMA PrivateClaimsHold ==
    ASSUME HonestBundle, NEW j \in 1 .. N, Insts[j].label # "mac"
    PROVE  AllHold(PrivateClaims(PrivateNames(case.prover.mode, Insts[j]), Insts[j],
                                 LayoutAt[j], SentAt[j]))
<1> DEFINE inst == Insts[j]
           lay == LayoutAt[j]
           names == PrivateNames(case.prover.mode, inst)
           sent == SentAt[j]
           u == PrivateClaims(names, inst, lay, sent)
           c(i) == FixedClaim(lay, Position(inst.label, names[i]), sent[i])
<1>1. case \in Cases /\ Honest
  BY DEF HonestBundle
<1>2. inst.label \in Labels
  BY <1>1, InstanceFacts
<1>3. IsSequence(names) /\ DOMAIN names = 1 .. Len(names)
  BY <1>2, PrivateNamesOf
<1>4. u = [i \in 1 .. Len(names) |-> c(i)]
  BY <1>3 DEF PrivateClaims
<1>5. ASSUME NEW i \in 1 .. Len(names)
      PROVE  Holds(c(i))
  <2> DEFINE p == Position(inst.label, names[i])
             w == sent[i]
  <2>1. PICK k \in DOMAIN Cells(inst.label) : Cells(inst.label)[k] = names[i]
    <3> DEFINE mode == case.prover.mode
               x == inst
    <3>1. x.label \in Labels /\ x.label # "mac" /\ i \in 1 .. Len(PrivateNames(mode, x))
      BY <1>2
    <3> HIDE DEF mode, x
    <3>2. \E k \in DOMAIN Cells(x.label) : Cells(x.label)[k] = PrivateNames(mode, x)[i]
      BY <3>1, PrivateNamesOf
    <3> QED BY <3>2 DEF mode, x
  <2>2. p \in 1 .. Len(Cells(inst.label)) /\ Cells(inst.label)[p] = names[i]
    BY <1>2, <2>1, PositionHolds
  <2>3. p \in DOMAIN Cells(inst.label)
    BY <1>2, <2>2, CellsOfLabel
  <2>4. Inputs[j][p] = CellValue(inst.signer, inst.label, names[i])
    BY <1>1, <2>2, <2>3, InputFacts
  <2>5. i \in 1 .. SentCounts[j]
    BY DEF SentCounts
  <2>6. w = Value(inst.signer, names[i], 0)
    BY <1>1, <2>5, SentHonest
  <2>7. Inputs[j][p] = w
    BY <1>1, <2>4, <2>6, HonestValues
  <2> HIDE DEF p, w
  <2>8. Holds(FixedClaim(lay, p, w))
    BY <2>7, CellHolds
  <2> QED BY <2>8 DEF p, w
<1>6. Len(names) \in Nat
  BY <1>3 DEF IsSequence
<1> HIDE DEF u, c, names, lay, sent
<1>7. u = [i \in 1 .. Len(names) |-> u[i]]
  BY <1>4
<1>8. IsSequence(u) /\ Len(u) = Len(names)
  BY <1>6, <1>7, Tabulated
<1>9. AllHold(u)
  BY <1>4, <1>5, <1>8 DEF AllHold
<1> QED BY <1>9 DEF u, names, lay, sent

(* A claim about the quotients in group B. *)
LEMMA QuotientsHold ==
    ASSUME HonestBundle, IsMdoc, NEW c, c.offset = GroupBOffset(Place[N + 1]),
           c.len = MacHalfCount, Opens(c, Quotients)
    PROVE  Holds(c)
<1> DEFINE g == bundle.groupA
           off == GroupBOffset(Place[N + 1])
           b == bundle.groupB
<1>1. /\ case \in Cases /\ Honest /\ IsSequence(g) /\ Len(g) = Place[N + 1] /\ b = Quotients
  BY DEF HonestBundle, Whole, Committed, Spanned, Strung
<1>2. Expected.mode = "mdoc"
  BY <1>1, HonestCall DEF IsMdoc
<1>3. off \in Int
  <2>1. RowLen \in Nat \ {0} /\ Len(g) \in Nat
    BY <1>1, BundleAssumption DEF IsSequence
  <2> QED BY <1>1, <2>1 DEF GroupBOffset, RowCount
<1>4. IsSequence(b) /\ Len(b) = 6
  <2> DEFINE q == [h \in 1 .. 6 |-> Quotient(h, Av, HalfValue(h))]
  <2>1. b = q
    BY <1>1 DEF Quotients, MacHalfCount
  <2>2. q = [h \in 1 .. 6 |-> q[h]]
    OBVIOUS
  <2> HIDE DEF q
  <2>3. IsSequence(q) /\ Len(q) = 6
    BY <2>2, Tabulated
  <2> QED BY <2>1, <2>3
<1> DEFINE lo == c.offset - off + 1
           hi == c.offset - off + c.len
<1>5. lo = 1 /\ hi = 6
  BY <1>3 DEF MacHalfCount
<1>6. SubSeq(b, 1, 6) = b
  <2> DEFINE u == SubSeq(b, 1, 6)
  <2>1. IsSequence(u) /\ Len(u) = 6 - 1 + 1 /\ \A i \in 1 .. 6 - 1 + 1 : u[i] = b[1 + i - 1]
    BY Cut
  <2> HIDE DEF u, b
  <2>2. Len(u) = 6 /\ \A i \in 1 .. Len(u) : u[i] = b[i]
    <3>1. 6 - 1 + 1 = 6 /\ \A i \in 1 .. 6 : 1 + i - 1 = i
      OBVIOUS
    <3> QED BY <2>1, <3>1
  <2> QED BY <1>4, <2>1, <2>2, SameSequence DEF u
<1>7. c.offset >= off
  BY <1>3
<1>8. SubSeq(b, lo, hi) = Quotients
  BY <1>1, <1>5, <1>6
<1> HIDE DEF b
<1>9. Holds(c) <=> Opens(c, SubSeq(b, lo, hi))
  BY <1>1, <1>2, <1>7 DEF Holds, Opens, b
<1> HIDE DEF lo, hi
<1> QED BY <1>8, <1>9

LEMMA SplitClaimsHold ==
    ASSUME HonestBundle, NEW j \in 1 .. N, Insts[j].label = "mac"
    PROVE  AllHold(SplitClaims(LayoutAt[j], Place[N + 1], Proofs[j], SentAt[j]))
<1> DEFINE lay == LayoutAt[j]
           off == GroupBOffset(Place[N + 1])
           left == InputPoints(Proofs[j].channel)[1]
           right == InputPoints(Proofs[j].channel)[2]
           sent == SentAt[j]
           a == Claim(lay.input, lay.inputLen, left, sent[1])
           b == Claim(off, MacHalfCount, left, sent[2])
           c == Claim(lay.input, lay.inputLen, right, sent[3])
           d == Claim(off, MacHalfCount, right, sent[4])
<1>1. case \in Cases /\ Honest
  BY DEF HonestBundle
<1>2. IsMdoc
  BY <1>1, InstanceFacts
<1>3. Proofs[j].input = Inputs[j] /\ Proofs[j].quotients = Quotients
  BY ProofOf
<1>4. /\ sent[1] = MleAt(Inputs[j], left) /\ sent[2] = MleAt(Quotients, left)
      /\ sent[3] = MleAt(Inputs[j], right) /\ sent[4] = MleAt(Quotients, right)
  <2>1. \A i \in 1 .. 4 : sent[i] = SplitValues(Proofs[j])[i]
    BY <1>1, SentHonest
  <2>2. SplitValues(Proofs[j]) = <<MleAt(Inputs[j], left), MleAt(Quotients, left),
                                   MleAt(Inputs[j], right), MleAt(Quotients, right)>>
    BY <1>3 DEF SplitValues
  <2>3. 1 \in 1 .. 4 /\ 2 \in 1 .. 4 /\ 3 \in 1 .. 4 /\ 4 \in 1 .. 4
    OBVIOUS
  <2> HIDE DEF sent, left, right
  <2> QED BY <2>1, <2>2, <2>3
<1>5. left[1] # "fixed" /\ right[1] # "fixed"
  BY DEF InputPoints
<1>6. SplitClaims(lay, Place[N + 1], Proofs[j], sent) = <<a, b, c, d>>
  BY DEF SplitClaims
<1> HIDE DEF left, right, sent, off
<1>7. Holds(a) /\ Holds(c)
  <2>1. /\ a.offset = lay.input /\ a.len = lay.inputLen /\ a.point = left /\ a.value = sent[1]
        /\ c.offset = lay.input /\ c.len = lay.inputLen /\ c.point = right /\ c.value = sent[3]
    BY DEF Claim
  <2> HIDE DEF a, c
  <2>2. Opens(a, Inputs[j]) /\ Opens(c, Inputs[j])
    BY <1>4, <1>5, <2>1 DEF Opens
  <2> QED BY <2>1, <2>2, InputHolds
<1>8. Holds(b) /\ Holds(d)
  <2>1. /\ b.offset = off /\ b.len = MacHalfCount /\ b.point = left /\ b.value = sent[2]
        /\ d.offset = off /\ d.len = MacHalfCount /\ d.point = right /\ d.value = sent[4]
    BY DEF Claim
  <2> HIDE DEF b, d
  <2>2. Opens(b, Quotients) /\ Opens(d, Quotients)
    BY <1>4, <1>5, <2>1 DEF Opens
  <2>3. b.offset = GroupBOffset(Place[N + 1]) /\ d.offset = GroupBOffset(Place[N + 1])
    BY <2>1 DEF off
  <2> QED BY <1>2, <2>1, <2>2, <2>3, QuotientsHold
<1> DEFINE t == <<a, b, c, d>>
<1> HIDE DEF a, b, c, d
<1>9. IsSequence(t) /\ Len(t) = 4 /\ t[1] = a /\ t[2] = b /\ t[3] = c /\ t[4] = d
  BY Tuple4
<1>10. AllHold(t)
  <2>1. \A i \in 1 .. 4 : i = 1 \/ i = 2 \/ i = 3 \/ i = 4
    OBVIOUS
  <2> HIDE DEF t
  <2> QED BY <1>7, <1>8, <1>9, <2>1 DEF AllHold
<1> QED BY <1>6, <1>10 DEF sent

LEMMA MacClaimsHold ==
    ASSUME HonestBundle, NEW j \in 1 .. N, Insts[j].label = "mac"
    PROVE  AllHold(MacClaims(LayoutAt[j], SubSeq(SentAt[j], 5, Len(SentAt[j]))))
<1> DEFINE lay == LayoutAt[j]
           sent == SentAt[j]
           values == SubSeq(sent, 5, Len(sent))
           m == MacClaims(lay, values)
<1>1. case \in Cases /\ Honest
  BY DEF HonestBundle
<1>2. /\ Len(sent) = 10 /\ \A h \in 1 .. 6 : sent[4 + h] = HalfValue(h)
  BY <1>1, SentHonest DEF MacHalfCount
<1>3. \A h \in 1 .. 6 : values[h] = HalfValue(h)
  <2> HIDE DEF sent
  <2> DEFINE u == SubSeq(sent, 5, 10)
  <2>1. \A i \in 1 .. 10 - 5 + 1 : u[i] = sent[5 + i - 1]
    BY Cut
  <2> HIDE DEF u
  <2>2. \A h \in 1 .. 6 : h \in 1 .. 10 - 5 + 1 /\ 5 + h - 1 = 4 + h
    OBVIOUS
  <2>3. \A h \in 1 .. 6 : u[h] = HalfValue(h)
    BY <1>2, <2>1, <2>2
  <2> QED BY <1>2, <2>3 DEF u
<1> HIDE DEF values
<1>4. m = [i \in 1 .. 12 |->
            IF i % 2 = 1 THEN FixedClaim(lay, 3 * ((i + 1) \div 2) - 2, <<"one">>)
            ELSE FixedClaim(lay, 3 * ((i + 1) \div 2) - 1, values[(i + 1) \div 2])]
  BY DEF MacClaims, MacHalfCount
<1>5. ASSUME NEW h \in 1 .. 6
      PROVE  /\ Holds(FixedClaim(lay, 3 * h - 2, <<"one">>))
             /\ Holds(FixedClaim(lay, 3 * h - 1, values[h]))
  <2> DEFINE i1 == 3 * h - 2
             i2 == 3 * h - 1
  <2>1. Inputs[j][i1] = <<"one">> /\ Inputs[j][i2] = HalfValue(h)
    BY <1>1, MacInputFacts DEF MacHalfCount
  <2> HIDE DEF i1, i2
  <2>2. Inputs[j][i2] = values[h]
    BY <1>3, <2>1
  <2>3. Holds(FixedClaim(lay, i1, <<"one">>)) /\ Holds(FixedClaim(lay, i2, values[h]))
    BY <2>1, <2>2, CellHolds
  <2> QED BY <2>3 DEF i1, i2
<1> HIDE DEF m, lay
<1>6. m = [i \in 1 .. 12 |-> m[i]]
  BY <1>4
<1>7. IsSequence(m) /\ Len(m) = 12
  BY <1>6, Tabulated
<1>8. ASSUME NEW i \in 1 .. 12
      PROVE  Holds(m[i])
  <2> DEFINE h == (i + 1) \div 2
  <2>1. h \in 1 .. 6
    OBVIOUS
  <2>2. m[i] = IF i % 2 = 1 THEN FixedClaim(lay, 3 * h - 2, <<"one">>)
               ELSE FixedClaim(lay, 3 * h - 1, values[h])
    BY <1>4
  <2> HIDE DEF h
  <2>3. CASE i % 2 = 1
    BY <1>5, <2>1, <2>2, <2>3
  <2>4. CASE i % 2 # 1
    BY <1>5, <2>1, <2>2, <2>4
  <2> QED BY <2>3, <2>4
<1>9. AllHold(m)
  BY <1>7, <1>8 DEF AllHold
<1> QED BY <1>9 DEF m, lay, values

(* Every claim made of an instance. *)
LEMMA ClaimsHold ==
    ASSUME HonestBundle, NEW j \in 1 .. N
    PROVE  AllHold(ClaimsAt[j])
<1> DEFINE inst == Insts[j]
           sent == SentAt[j]
           pads == PadClaims(LayoutAt[j], Proofs[j], Root, case.prover.seed)
           split == SplitClaims(LayoutAt[j], Place[N + 1], Proofs[j], sent)
           macs == MacClaims(LayoutAt[j], SubSeq(sent, 5, Len(sent)))
           ins == InputClaims(LayoutAt[j], Proofs[j])
           pub == PublicClaims(inst, case.prover.projections[inst.signer + 1], LayoutAt[j])
           priv == PrivateClaims(PrivateNames(case.prover.mode, inst), inst, LayoutAt[j], sent)
<1>1. ClaimsAt[j] = IF inst.label = "mac" THEN split \o pads \o macs
                    ELSE ins \o pads \o pub \o priv
  BY DEF ClaimsAt, ClaimsMadeOf
<1>2. AllHold(pads)
  BY PadClaimsHold
<1>3. CASE inst.label = "mac"
  <2>1. AllHold(split) /\ AllHold(macs)
    BY <1>3, SplitClaimsHold, MacClaimsHold
  <2> HIDE DEF split, macs, pads
  <2>2. AllHold(split \o pads)
    BY <1>2, <2>1, JoinedHold
  <2>3. AllHold(split \o pads \o macs)
    BY <2>1, <2>2, JoinedHold
  <2> QED BY <1>1, <1>3, <2>3
<1>4. CASE inst.label # "mac"
  <2>1. AllHold(ins) /\ AllHold(pub) /\ AllHold(priv)
    BY <1>4, InputClaimsHold, PublicClaimsHold, PrivateClaimsHold
  <2> HIDE DEF ins, pub, priv, pads
  <2>2. AllHold(ins \o pads)
    BY <1>2, <2>1, JoinedHold
  <2>3. AllHold(ins \o pads \o pub)
    BY <2>1, <2>2, JoinedHold
  <2>4. AllHold(ins \o pads \o pub \o priv)
    BY <2>1, <2>3, JoinedHold
  <2> QED BY <1>1, <1>4, <2>4
<1> QED BY <1>3, <1>4

-----------------------------------------------------------------------------
(* The verifier's conclusion on an honest bundle.                          *)

Finishing == Shaped /\ InInstances /\ Honest /\ HonestInstances /\ at = N + 1

LEMMA FinishingFacts ==
    ASSUME Finishing
    PROVE  /\ HonestBundle /\ case \in Cases /\ Honest /\ Delivered /\ Valued(N) /\ Claimed(N)
           /\ N \in Nat /\ N >= 6 /\ SeenShaped /\ cursor = Mark[N + 1]
           /\ \A j \in 1 .. N : KeptOf(j) /\ TakenAt(j) = SentAt[j]
           /\ IsCall(case.prover) /\ Insts = ProverInstances(case.prover)
           /\ Len(case.prover.projections) \in Nat
           /\ DOMAIN Expected.projections = 1 .. Len(case.prover.projections)
<1>1. /\ case \in Cases /\ Honest /\ Delivered /\ SeenShaped /\ cursor = Mark[at] /\ at = N + 1
      /\ Whole /\ Claimed(at - 1)
  BY DEF Finishing, Shaped, InInstances, HonestInstances
<1>2. /\ N \in Nat /\ N >= 6 /\ IsCall(case.prover) /\ Insts = ProverInstances(case.prover)
  BY <1>1, CaseFacts
<1>3. at - 1 = N
  BY <1>1, <1>2
<1>4. Valued(N)
  BY <1>1 DEF Whole
<1>5. \A j \in 1 .. N : KeptOf(j)
  BY <1>3 DEF Finishing, InInstances, Passed
<1>6. \A j \in 1 .. N : TakenAt(j) = SentAt[j]
  BY <1>1, <1>4, TakenHonest
<1>7. /\ Len(case.prover.projections) \in Nat
      /\ DOMAIN Expected.projections = 1 .. Len(case.prover.projections)
  <2>1. Expected.projections = case.prover.projections
    BY <1>1, HonestCall
  <2>2. case.prover.projections \in Seq([PublicFields -> Int])
    BY <1>2 DEF IsCall
  <2> QED BY <2>1, <2>2, LenProperties
<1> QED BY <1>1, <1>2, <1>3, <1>4, <1>5, <1>6, <1>7 DEF HonestBundle

LEMMA FamiliesHonest ==
    ASSUME Finishing, NEW i \in DOMAIN seen.signers
    PROVE  FamiliesAgree(seen.signers[i])
<1> DEFINE s == i - 1
           n == Len(case.prover.projections)
<1>1. /\ IsCall(case.prover) /\ Insts = ProverInstances(case.prover) /\ n \in Nat
      /\ SeenShaped /\ case \in Cases /\ Honest /\ Valued(N)
      /\ DOMAIN Expected.projections = 1 .. n
  BY FinishingFacts
<1>2. i \in 1 .. n /\ DOMAIN seen.signers[i] = Kept
  BY <1>1 DEF SeenShaped
<1>3. s \in 0 .. n - 1 /\ s + 1 = i
  BY <1>1, <1>2
<1> HIDE DEF s, n
<1>4. ASSUME NEW f \in 1 .. 6
      PROVE  /\ 6 * s + f \in 1 .. N /\ Insts[6 * s + f] = Instance(s, Families[f])
             /\ KeptOf(6 * s + f)
  <2>1. 6 * s + f \in 1 .. N /\ Insts[6 * s + f] = Instance(s, Families[f])
    BY <1>1, <1>3, FamilyPlace DEF N, n
  <2> QED BY <2>1, FinishingFacts
<1>5. seen.signers[s + 1]["c11"] = [k \in 1 .. 6 |-> Value(s, PointNames[k], 0)]
  <2>1. /\ 6 * s + 4 \in 1 .. N /\ Insts[6 * s + 4] = Instance(s, "c11") /\ KeptOf(6 * s + 4)
    BY <1>4, FamilyLabels
  <2> QED BY <1>1, <2>1, KeptHonest
<1>6. seen.signers[s + 1]["c12"] = [k \in 1 .. 6 |-> Value(s, PointNames[k], 0)]
  <2>1. /\ 6 * s + 5 \in 1 .. N /\ Insts[6 * s + 5] = Instance(s, "c12") /\ KeptOf(6 * s + 5)
    BY <1>4, FamilyLabels
  <2> QED BY <1>1, <2>1, KeptHonest
<1>7. seen.signers[s + 1]["c14"] = [k \in 1 .. 1 |-> Value(s, "rx", 0)]
  <2>1. /\ 6 * s + 6 \in 1 .. N /\ Insts[6 * s + 6] = Instance(s, "c14") /\ KeptOf(6 * s + 6)
    BY <1>4, FamilyLabels
  <2> QED BY <1>1, <2>1, KeptHonest
<1> DEFINE r == seen.signers[s + 1]
<1>8. r["c11"] = r.c11 /\ r["c12"] = r.c12 /\ r["c14"] = r.c14 /\ DOMAIN r = Kept
  BY <1>2, <1>3
<1> HIDE DEF r
<1>9. FamiliesAgree(r)
  BY <1>5, <1>6, <1>7, <1>8, AgreeingFamilies DEF r
<1> QED BY <1>3, <1>9 DEF r

LEMMA MacHonest ==
    ASSUME Finishing, Expected.mode = "mdoc"
    PROVE  MacAgrees
<1> DEFINE n == Len(case.prover.projections)
           mode == case.prover.mode
<1>1. /\ mode = "mdoc" /\ IsCall(case.prover) /\ Insts = ProverInstances(case.prover)
      /\ n \in Nat /\ n >= 2 /\ N = 6 * n + 1 /\ case \in Cases /\ Honest
  <2>1. IsCall(case.prover) /\ case \in Cases /\ Honest /\ Insts = ProverInstances(case.prover)
    BY FinishingFacts
  <2>2. mode = "mdoc"
    BY <2>1, HonestCall, Zenon
  <2>3. n \in {2, 3}
    BY <2>1, <2>2 DEF IsCall
  <2>4. IsMdoc /\ N = 6 * n + (IF IsMdoc THEN 1 ELSE 0)
    BY <2>1, <2>2, CaseFacts, Zenon DEF IsMdoc
  <2>5. N = 6 * n + 1
    BY <2>4
  <2> HIDE DEF n, mode
  <2>6. n \in Nat /\ n >= 2
    BY <2>3
  <2> QED BY <2>1, <2>2, <2>5, <2>6
<1>2. \A h \in 1 .. 6 : seen.mac[h] = Value(Half[h][1], Half[h][2], 0)
  <2>1. N \in 1 .. N
    BY <1>1
  <2>2. Insts[N] = MacBatch
    BY <1>1, ProverWalk
  <2>3. Insts[N].label = "mac"
    BY <2>2 DEF MacBatch, Instance
  <2>4. \A h \in 1 .. MacHalfCount : seen.mac[h] = TakenAt(N)[4 + h]
    BY <2>1, <2>3, FinishingFacts DEF KeptOf
  <2>5. TakenAt(N) = SentAt[N]
    BY <2>1, FinishingFacts
  <2>6. \A h \in 1 .. MacHalfCount : SentAt[N][4 + h] = HalfValue(h)
    BY <1>1, <2>1, <2>3, SentHonest
  <2>7. \A h : HalfValue(h) = Value(Half[h][1], Half[h][2], 0)
    BY <1>1, HonestValues
  <2> QED BY <2>4, <2>5, <2>6, <2>7 DEF MacHalfCount
<1>3. ASSUME NEW s \in 0 .. n - 1, NEW f \in 1 .. 6, Families[f] \in {"c2", "c3"}
      PROVE  /\ 6 * s + f \in 1 .. N /\ Insts[6 * s + f].label = Families[f]
             /\ Insts[6 * s + f].signer = s /\ KeptOf(6 * s + f)
             /\ \A i \in 1 .. SentCounts[6 * s + f] :
                   TakenAt(6 * s + f)[i] = Value(s, PrivateNames(mode, Insts[6 * s + f])[i], 0)
  <2> DEFINE j == 6 * s + f
  <2>1. j \in 1 .. N /\ Insts[j] = Instance(s, Families[f])
    BY <1>1, FamilyPlace DEF N
  <2> HIDE DEF j
  <2>2. Insts[j].label = Families[f] /\ Insts[j].signer = s /\ Insts[j].label # "mac"
    BY <1>3, <2>1 DEF Instance
  <2>3. KeptOf(j) /\ TakenAt(j) = SentAt[j]
    BY <2>1, FinishingFacts
  <2>4. \A i \in 1 .. SentCounts[j] : SentAt[j][i] = Value(s, PrivateNames(mode, Insts[j])[i], 0)
    BY <1>1, <2>1, <2>2, SentHonest
  <2> QED BY <2>1, <2>2, <2>3, <2>4 DEF j
<1>4. seen.z = Value(0, "z", 0)
  <2> DEFINE j == 6 * 0 + 3
  <2>1. 0 \in 0 .. n - 1 /\ 3 \in 1 .. 6
    BY <1>1
  <2>2. /\ j \in 1 .. N /\ Insts[j].label = "c3" /\ Insts[j].signer = 0 /\ KeptOf(j)
        /\ \A i \in 1 .. SentCounts[j] :
              TakenAt(j)[i] = Value(0, PrivateNames(mode, Insts[j])[i], 0)
    BY <1>3, <2>1, FamilyLabels
  <2> HIDE DEF j
  <2>3. RoleNames(mode, Insts[j]) = <<"z">> /\ PrivateNames(mode, Insts[j]) = <<"z">>
    BY <1>1, <2>2 DEF RoleNames, PrivateNames
  <2>4. Len(<<"z">>) = 1 /\ <<"z">>[1] = "z" /\ <<"z">> # <<>>
    BY Tuple1
  <2>5. SentCounts[j] = 1
    BY <2>2, <2>3, <2>4 DEF SentCounts
  <2>6. TakenAt(j)[1] = Value(0, "z", 0)
    BY <2>2, <2>3, <2>4, <2>5
  <2> QED BY <2>2, <2>3, <2>4, <2>6 DEF KeptOf
<1>5. seen.qx = Value(1, "qx", 0) /\ seen.qy = Value(1, "qy", 0)
  <2> DEFINE j == 6 * 1 + 2
  <2>1. 1 \in 0 .. n - 1 /\ 2 \in 1 .. 6
    BY <1>1
  <2>2. /\ j \in 1 .. N /\ Insts[j].label = "c2" /\ Insts[j].signer = 1 /\ KeptOf(j)
        /\ \A i \in 1 .. SentCounts[j] :
              TakenAt(j)[i] = Value(1, PrivateNames(mode, Insts[j])[i], 0)
    BY <1>3, <2>1, FamilyLabels
  <2> HIDE DEF j
  <2>3. RoleNames(mode, Insts[j]) = <<"qx", "qy">> /\ PrivateNames(mode, Insts[j]) = <<"qx", "qy">>
    BY <1>1, <2>2 DEF RoleNames, PrivateNames
  <2>4. Len(<<"qx", "qy">>) = 2 /\ <<"qx", "qy">>[1] = "qx" /\ <<"qx", "qy">>[2] = "qy"
        /\ <<"qx", "qy">> # <<>>
    BY Tuple2
  <2>5. SentCounts[j] = 2
    BY <2>2, <2>3, <2>4 DEF SentCounts
  <2>6. 1 \in 1 .. SentCounts[j] /\ 2 \in 1 .. SentCounts[j]
    BY <2>5
  <2>7. TakenAt(j)[1] = Value(1, "qx", 0) /\ TakenAt(j)[2] = Value(1, "qy", 0)
    BY <2>2, <2>3, <2>4, <2>6
  <2> QED BY <2>2, <2>3, <2>4, <2>7 DEF KeptOf
<1>6. /\ seen.mac[1] = Value(0, "z", 0) /\ seen.mac[2] = Value(0, "z", 0)
      /\ seen.mac[3] = Value(1, "qx", 0) /\ seen.mac[4] = Value(1, "qx", 0)
      /\ seen.mac[5] = Value(1, "qy", 0) /\ seen.mac[6] = Value(1, "qy", 0)
  BY <1>2 DEF Half
<1>7. ASSUME NEW s, NEW name
      PROVE  Recompose(Value(s, name, 0), Value(s, name, 0)) = Value(s, name, 0)
  BY DEF Recompose, Value
<1> QED BY <1>4, <1>5, <1>6, <1>7 DEF MacAgrees

LEMMA BatchHoldsHonest ==
    ASSUME Finishing
    PROVE  BatchHolds
<1>1. /\ HonestBundle /\ case \in Cases /\ Honest /\ Delivered /\ Strung(claims, ClaimsAt, ClaimMark, N)
  BY FinishingFacts DEF Claimed
<1>2. Parted(ClaimsAt, ClaimCounts, N, ClaimMark)
  BY <1>1, ClaimParts
<1>3. PICK cs : /\ Strung(cs, ClaimsAt, ClaimMark, N)
                /\ bundle.batch = [weights |-> Weights(cs),
                                   gamma |-> ClaimGamma(Root, Len(cs), case.prover.seed)]
  BY <1>1 DEF HonestBundle, Whole, Batched
<1>4. cs = claims
  BY <1>1, <1>2, <1>3, StrungSame
<1>5. VerifierRoot = Root /\ Expected.seed = case.prover.seed
  BY <1>1, HonestRoots, HonestCall
<1>6. /\ bundle.batch.weights = Weights(claims)
      /\ bundle.batch.gamma = ClaimGamma(VerifierRoot, Len(claims), Expected.seed)
  BY <1>3, <1>4, <1>5
<1>7. AllHold(claims)
  <2>1. \A j \in 1 .. N : AllHold(ClaimsAt[j])
    BY <1>1, ClaimsHold
  <2> QED BY <1>1, <1>2, <2>1, StrungHold
<1>8. \A k \in DOMAIN claims : Holds(claims[k])
  BY <1>7 DEF AllHold, IsSequence
<1> QED BY <1>6, <1>8 DEF BatchHolds

LEMMA ConcludeHonest ==
    ASSUME Shaped, InInstances, Honest, HonestInstances, Conclude
    PROVE  HonestAnswered'
<1>1. at = N + 1
  <2>1. case \in Cases /\ Agreed /\ at \in Nat \ {0} /\ at <= N + 1 /\ at > Len(VerifierInsts)
    BY DEF Shaped, InInstances, Conclude
  <2>2. N \in Nat
    BY <2>1, CaseFacts
  <2>3. Len(VerifierInsts) = N
    BY <2>1, Zenon DEF Agreed, N
  <2> QED BY <2>1, <2>2, <2>3
<1>2. Finishing
  BY <1>1 DEF Finishing
<1>3. cursor = Len(bundle.values)
  <2>1. Len(bundle.values) = Mark[N + 1]
    BY <1>2, FinishingFacts DEF Valued, Strung
  <2> QED BY <1>2, <2>1, FinishingFacts
<1>4. \A i \in DOMAIN seen.signers : FamiliesAgree(seen.signers[i])
  BY <1>2, FamiliesHonest
<1>5. Expected.mode = "mdoc" => MacAgrees
  BY <1>2, MacHonest
<1>6. BatchHolds
  BY <1>2, BatchHoldsHonest
<1>7. Answer("accepted")
  BY <1>3, <1>4, <1>5, <1>6 DEF Conclude
<1> QED BY <1>7 DEF Answer, HonestAnswered

-----------------------------------------------------------------------------
(* An honest run from its first step to its answer.                        *)

LEMMA StutterHonest ==
    ASSUME Honest, HInv, UNCHANGED vars
    PROVE  HInv'
<1>1. /\ case' = case /\ phase' = phase /\ at' = at /\ layouts' = layouts /\ bundle' = bundle
      /\ claims' = claims /\ cursor' = cursor /\ seen' = seen /\ outcome' = outcome
  BY DEF vars
<1>2. /\ N' = N /\ IsMdoc' = IsMdoc /\ Mark' = Mark /\ Place' = Place /\ LayoutAt' = LayoutAt
      /\ Spans' = Spans /\ Quotients' = Quotients /\ Proofs' = Proofs /\ SentAt' = SentAt
      /\ ClaimsAt' = ClaimsAt /\ ClaimMark' = ClaimMark
  BY <1>1, CaseKept, HonestKept
<1>3. /\ \A c : Spanned(c)' = Spanned(c)
      /\ \A c : Placed(c)' = Placed(c)
      /\ \A c : Entered(c)' = Entered(c)
      /\ \A c : Valued(c)' = Valued(c)
      /\ \A c : Claimed(c)' = Claimed(c)
  BY <1>1, <1>2 DEF Spanned, Placed, Entered, Valued, Claimed, Strung
<1>4. (Committed => Committed') /\ (OpenedAsDrawn => OpenedAsDrawn') /\ (Whole => Whole')
  <2>1. Committed' = Committed
    BY <1>1, <1>2, <1>3 DEF Committed
  <2>2. OpenedAsDrawn => OpenedAsDrawn'
    BY <1>1, OpenedAsDrawnStays
  <2>3. Whole => Whole'
    BY <1>1, WholeStays
  <2> QED BY <2>1, <2>2, <2>3
<1>5. /\ HonestLayout => HonestLayout'
      /\ HonestProximity => HonestProximity'
      /\ HonestSumcheck => HonestSumcheck'
      /\ HonestClaims => HonestClaims'
  BY <1>1, <1>2, <1>3, <1>4 DEF HonestLayout, HonestProximity, HonestSumcheck, HonestClaims
<1>6. /\ HonestSent => HonestSent'
      /\ HonestInstances => HonestInstances'
      /\ HonestAnswered => HonestAnswered'
  BY <1>1, <1>2, <1>3, <1>4 DEF HonestSent, HonestInstances, HonestAnswered
<1> QED BY <1>5, <1>6 DEF HInv

(* The two invariants name the phase alike. *)
LEMMA HonestPhases ==
    ASSUME IInv, HInv, Honest
    PROVE  /\ phase = "layout" => InLayout /\ HonestLayout
           /\ phase = "proximity" => InProximity /\ HonestProximity
           /\ phase = "sumcheck" => InSumcheck /\ HonestSumcheck
           /\ phase = "claims" => InClaims /\ HonestClaims
           /\ phase = "sent" => InSent /\ HonestSent
           /\ phase = "setup" => InSetup /\ HonestSent
           /\ phase = "shapes" => InShapes /\ HonestSent
           /\ phase = "instances" => InInstances /\ HonestInstances
<1>1. \/ InLayout \/ InProximity \/ InSumcheck \/ InClaims \/ InSent
      \/ InSetup \/ InShapes \/ InInstances \/ InAnswered
  BY DEF IInv
<1>2. /\ InLayout => phase = "layout"
      /\ InProximity => phase = "proximity"
      /\ InSumcheck => phase = "sumcheck"
      /\ InClaims => phase = "claims"
      /\ InSent => phase = "sent"
      /\ InSetup => phase = "setup"
      /\ InShapes => phase = "shapes"
      /\ InInstances => phase = "instances"
      /\ InAnswered => phase = "answered"
  BY DEF InLayout, InProximity, InSumcheck, InClaims, InSent, InSetup, InShapes, InInstances,
         InAnswered
<1>3. \/ HonestLayout \/ HonestProximity \/ HonestSumcheck \/ HonestClaims
      \/ HonestSent \/ HonestInstances \/ HonestAnswered
  BY DEF HInv
<1>4. /\ HonestLayout => phase = "layout"
      /\ HonestProximity => phase = "proximity"
      /\ HonestSumcheck => phase = "sumcheck"
      /\ HonestClaims => phase = "claims"
      /\ HonestSent => phase \in {"sent", "setup", "shapes"}
      /\ HonestInstances => phase = "instances"
      /\ HonestAnswered => phase = "answered"
  BY DEF HonestLayout, HonestProximity, HonestSumcheck, HonestClaims, HonestSent,
         HonestInstances, HonestAnswered
<1> QED BY <1>1, <1>2, <1>3, <1>4

LEMMA HonestPreserved == IInv /\ HInv /\ [Next]_vars => HInv'
<1> SUFFICES ASSUME IInv, HInv, [Next]_vars PROVE HInv'
  OBVIOUS
<1>1. case' = case
  BY DEF Next, LayOut, Commit, Proximity, ProveInstance, StartClaims, ClaimInstance, Batch,
         Deliver, Setup, LayOutExpected, CheckOpenings, VerifyInstance, Conclude, Answered,
         Answer, vars
<1>2. Honest' = Honest
  BY <1>1, HonestKept
<1>3. CASE ~Honest
  BY <1>2, <1>3 DEF HInv
<1> SUFFICES ASSUME Honest PROVE HInv'
  BY <1>3
<1>4. Shaped
  BY DEF IInv
<1>5. CASE LayOut
  <2>1. InLayout /\ HonestLayout
    BY <1>5, HonestPhases DEF LayOut
  <2>2. HonestLayout'
    BY <1>4, <1>5, <2>1, LayOutHonest
  <2> QED BY <2>2 DEF HInv
<1>6. CASE Commit
  <2>1. InLayout /\ HonestLayout
    BY <1>6, HonestPhases DEF Commit
  <2>2. HonestProximity'
    BY <1>4, <1>6, <2>1, CommitHonest
  <2> QED BY <2>2 DEF HInv
<1>7. CASE Proximity
  <2>1. InProximity /\ HonestProximity
    BY <1>7, HonestPhases DEF Proximity
  <2>2. HonestSumcheck'
    BY <1>4, <1>7, <2>1, ProximityHonest
  <2> QED BY <2>2 DEF HInv
<1>8. CASE ProveInstance
  <2>1. InSumcheck /\ HonestSumcheck
    BY <1>8, HonestPhases DEF ProveInstance
  <2>2. HonestSumcheck'
    BY <1>4, <1>8, <2>1, ProveInstanceHonest
  <2> QED BY <2>2 DEF HInv
<1>9. CASE StartClaims
  <2>1. InSumcheck /\ HonestSumcheck
    BY <1>9, HonestPhases DEF StartClaims
  <2>2. HonestClaims'
    BY <1>4, <1>9, <2>1, StartClaimsHonest
  <2> QED BY <2>2 DEF HInv
<1>10. CASE ClaimInstance
  <2>1. InClaims /\ HonestClaims
    BY <1>10, HonestPhases DEF ClaimInstance
  <2>2. HonestClaims'
    BY <1>4, <1>10, <2>1, ClaimInstanceHonest
  <2> QED BY <2>2 DEF HInv
<1>11. CASE Batch
  <2>1. InClaims /\ HonestClaims
    BY <1>11, HonestPhases DEF Batch
  <2>2. HonestSent'
    BY <1>4, <1>11, <2>1, BatchHonest
  <2> QED BY <2>2 DEF HInv
<1>12. CASE Deliver
  <2>1. InSent /\ HonestSent
    BY <1>12, HonestPhases DEF Deliver
  <2>2. HonestSent'
    BY <1>4, <1>12, <2>1, DeliverHonest
  <2> QED BY <2>2 DEF HInv
<1>13. CASE Setup
  <2>1. InSetup /\ HonestSent
    BY <1>13, HonestPhases DEF Setup
  <2>2. HonestSent'
    BY <1>4, <1>13, <2>1, SetupHonest
  <2> QED BY <2>2 DEF HInv
<1>14. CASE LayOutExpected
  <2>1. InShapes /\ HonestSent
    BY <1>14, HonestPhases DEF LayOutExpected
  <2>2. HonestSent'
    BY <1>4, <1>14, <2>1, LayOutExpectedHonest
  <2> QED BY <2>2 DEF HInv
<1>15. CASE CheckOpenings
  <2>1. InShapes /\ HonestSent
    BY <1>15, HonestPhases DEF CheckOpenings
  <2>2. HonestInstances'
    BY <1>4, <1>15, <2>1, CheckOpeningsHonest
  <2> QED BY <2>2 DEF HInv
<1>16. CASE VerifyInstance
  <2>1. InInstances /\ HonestInstances
    BY <1>16, HonestPhases DEF VerifyInstance
  <2>2. HonestInstances'
    BY <1>4, <1>16, <2>1, VerifyInstanceHonest
  <2> QED BY <2>2 DEF HInv
<1>17. CASE Conclude
  <2>1. InInstances /\ HonestInstances
    BY <1>17, HonestPhases DEF Conclude
  <2>2. HonestAnswered'
    BY <1>4, <1>17, <2>1, ConcludeHonest
  <2> QED BY <2>2 DEF HInv
<1>18. CASE Answered \/ UNCHANGED vars
  BY <1>18, StutterHonest DEF Answered
<1> QED BY <1>5, <1>6, <1>7, <1>8, <1>9, <1>10, <1>11, <1>12, <1>13, <1>14, <1>15, <1>16, <1>17,
           <1>18 DEF Next

(* Of an honest run the invariant says all: whatever has been laid out, proved,
   sent and claimed is what the case decides, at the place it decides. *)
THEOREM HonestInvariance == Spec => [](IInv /\ HInv)
<1>1. Init => IInv /\ HInv
  BY Starts, HonestStarts
<1>2. IInv /\ HInv /\ [Next]_vars => (IInv /\ HInv)'
  BY Preserved, HonestPreserved
<1> QED BY <1>1, <1>2, PTL DEF Spec

(* Nothing refuses an honest bundle: for any number of signatures, with or
   without an mdoc's MAC, any pads and any row, and whatever its projections
   publish, the verifier's own layout, draws and walk are the prover's, it takes
   the values sent of each instance, and each claim it makes of them holds of
   what the prover committed. *)
THEOREM HonestAccepted == Spec => []HonestIsAccepted
<1>1. IInv /\ HInv => HonestIsAccepted
  <2> SUFFICES ASSUME IInv, HInv, Honest, outcome # "none" PROVE outcome = "accepted"
    BY DEF HonestIsAccepted
  <2>1. phase = "answered"
    BY DEF IInv, Shaped
  <2> QED BY <2>1 DEF HInv, HonestLayout, HonestProximity, HonestSumcheck, HonestClaims,
                      HonestSent, HonestInstances, HonestAnswered
<1> QED BY <1>1, HonestInvariance, PTL
=============================================================================
