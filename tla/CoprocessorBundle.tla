------------------------- MODULE CoprocessorBundle --------------------------
(***************************************************************************)
(* The bundle of circuit proofs: how the prover commits the inputs of every*)
(* circuit, proves each and claims values of them, and how the verifier    *)
(* walks the same instances (eu-id-ec-coprocessor/src/ecdsa.rs).  Both     *)
(* forms are modelled: the batch of signatures under one root, and the     *)
(* mdoc bundle of issuer, device, perhaps revocation, and the MAC circuit, *)
(* under two roots.                                                        *)
(*                                                                         *)
(* A committed value is a token: code 0 is the value of the signature the  *)
(* caller meant, another code another value.  Hashes,                      *)
(* challenges and transcripts are what they absorbed; the sumcheck and the *)
(* Ligero batch are assumed sound: each claim they carry is checked.       *)
(***************************************************************************)
EXTENDS Integers, Sequences, SequencesExt

CONSTANTS
    Cases,     \* what the prover and the verifier are called with
    PadLen,    \* one-time-pad values of a circuit, by label
    RowLen     \* values of a Ligero row

PublicFields == {"z", "r", "s", "qx", "qy"}
None == -1    \* a value the projection does not publish

(* The arguments of the bundle functions: the projection of each signature, of
   an mdoc the issuer's, the device's and perhaps the revocation's. *)
IsCall(call) ==
    /\ call = [mode |-> call.mode, projections |-> call.projections, seed |-> call.seed]
    /\ call.mode \in {"batch", "mdoc"}
    /\ call.projections \in Seq([PublicFields -> Int]) /\ call.projections # <<>>
    /\ call.mode = "mdoc" => Len(call.projections) \in {2, 3}

(* What may happen to a bundle on its way; the second commitment and the tags
   are those of an mdoc. *)
MdocFaults == {"no root b", "tag lost", "indices b"}
Faults == MdocFaults \cup {"none", "params", "entry lost", "entries swapped", "value lost",
                           "value added", "value changed", "indices"}

ASSUME CasesAssumption ==
    \A c \in Cases :
        /\ IsCall(c.prover) /\ IsCall(c.verifier) /\ c.fault \in Faults
        /\ c.fault \in MdocFaults => c.prover.mode = "mdoc"
        /\ c.fault = "entries swapped" => Len(c.prover.projections) >= 2
ASSUME BundleAssumption ==
    RowLen \in Nat \ {0} /\ PadLen \in [{"c1", "c2", "c3", "c11", "c12", "c14", "mac"} -> Nat]

Families == <<"c1", "c2", "c3", "c11", "c12", "c14">>
Half == <<<<0, "z">>, <<0, "z">>, <<1, "qx">>, <<1, "qx">>, <<1, "qy">>, <<1, "qy">>>>
MacHalfCount == 6
VARIABLES
    case,     \* the prover's and the verifier's arguments
    phase,    \* the next step of the bundle's life
    at,       \* the instance a loop has reached
    layouts,  \* where the inputs and pads of each instance begin, by either side
    bundle,   \* the bundle as far as it is made, then as it is received
    claims,   \* the linear claims of the side at work
    cursor,   \* how many consistency values the verifier has taken
    seen,     \* what the verifier keeps of them: per signer and for the MAC
    outcome   \* what the verifier answers

vars == <<case, phase, at, layouts, bundle, claims, cursor, seen, outcome>>

-----------------------------------------------------------------------------
(* Instances and their inputs.                                             *)

(* The cells of a family's input that some claim reads. *)
Cells(label) ==
    CASE label = "c1"  -> <<"z", "r", "s", "qx", "qy">>
      [] label = "c2"  -> <<"r", "s", "qx", "qy">>
      [] label = "c3"  -> <<"z", "r", "s">>
      [] label = "c11" -> <<"ax", "ay", "bx", "by", "rx", "ry">>
      [] label = "c12" -> <<"ax", "ay", "bx", "by", "rx", "ry">>
      [] label = "c14" -> <<"rx", "r">>

Position(label, name) == CHOOSE i \in DOMAIN Cells(label) : Cells(label)[i] = name

Instance(signer, label) == [signer |-> signer, label |-> label]
MacBatch == Instance(-1, "mac")

(* implemented_circuit_instances: the families of one signature. *)
SignatureInstances(signer) == [i \in 1 .. Len(Families) |-> Instance(signer, Families[i])]

(* Of several signatures, one after another. *)
SignersInstances(count) ==
    [i \in 1 .. Len(Families) * count |->
        Instance((i - 1) \div Len(Families), Families[((i - 1) % Len(Families)) + 1])]

(* The prover's: every signature in turn; of an mdoc the MAC last. *)
ProverInstances(call) ==
    SignersInstances(Len(call.projections))
    \o (IF call.mode = "mdoc" THEN <<MacBatch>> ELSE <<>>)

VerifierInstancesMacThird(call) ==
    IF call.mode = "batch" THEN SignersInstances(Len(call.projections))
    ELSE SignatureInstances(0) \o SignatureInstances(1) \o <<MacBatch>>
         \o (IF Len(call.projections) = 3 THEN SignatureInstances(2) ELSE <<>>)

(* The verifier's, from what it expects: of an mdoc, whether it expects a
   revocation. *)
VerifierInstances(call) ==
    IF call.mode = "batch" THEN SignersInstances(Len(call.projections))
    ELSE SignatureInstances(0) \o SignatureInstances(1)
         \o (IF Len(call.projections) = 3 THEN SignatureInstances(2) ELSE <<>>) \o <<MacBatch>>

Value(signer, name, code) == <<"value", signer, name, code>>

(* What the prover puts into a cell: the signature's value unless the case
   deviates there. *)
CellValue(signer, label, name) ==
    Value(signer, name, IF <<signer, label, name>> \in case.deviation THEN 3 ELSE 0)

HalfValue(half) ==
    Value(Half[half][1], Half[half][2], IF <<"mac", half>> \in case.deviation THEN 1 ELSE 0)

(* The MAC circuit's group A input: of each half the constant one, the value
   and the key share. *)
MacInput ==
    [i \in 1 .. 3 * MacHalfCount |->
        LET half == (i + 2) \div 3
        IN  CASE i % 3 = 1 -> <<"one">>
              [] i % 3 = 2 -> HalfValue(half)
              [] i % 3 = 0 -> <<"share", half>>]

InputOf(inst) ==
    IF inst.label = "mac" THEN MacInput
    ELSE [i \in DOMAIN Cells(inst.label) |->
            CellValue(inst.signer, inst.label, Cells(inst.label)[i])]

InputLen(label) == IF label = "mac" THEN 3 * MacHalfCount ELSE Len(Cells(label))

Pads(label) == [i \in 1 .. PadLen[label] |-> <<"pad", label, i>>]

(* Where an instance's values lie when the next is free at offset. *)
Layout(offset, inputLen, padLen) ==
    [input |-> offset, inputLen |-> inputLen, pad |-> offset + inputLen, padLen |-> padLen]

(* The values that a side has laid out. *)
CommittedLen(ls) == IF ls = <<>> THEN 0 ELSE Last(ls).pad + Last(ls).padLen

RowCount(values) == (values + RowLen - 1) \div RowLen

(* Group B starts on the row after group A's last. *)
GroupBOffset(lenA) == RowCount(lenA) * RowLen

-----------------------------------------------------------------------------
(* Challenges: what each absorbed.                                         *)

FullRoot(rootA, rootB) == <<"two-root", rootA, rootB>>
DrawAv(seed, rootA) == <<"av", seed, rootA>>
Tag(half, av, x) == <<"tag", half, av, x>>
Quotient(half, av, x) == <<"q", half, av, x>>
ProximityGamma(root, rows, seed) == <<"proximity", root, rows, seed>>
ProximityIndices(root, seed) == <<"indices", root, seed>>
ClaimGamma(root, count, seed) == <<"claims", root, count, seed>>
PadPoint(layout, root, seed) == <<"pad", layout.pad, layout.padLen, root, seed>>
Fixed(index) == <<"fixed", index>>
MleAt(values, point) == <<"mle", values, point>>

RootOf(b, mode) == IF mode = "mdoc" THEN FullRoot(b.rootA, b.rootB) ELSE b.rootA

(* The transcript an instance's sumcheck starts from. *)
InstanceChannel(inst, call, root, av, tags) ==
    IF inst.label = "mac"
    THEN <<call.seed, "mac-public", root, av, tags, inst.label>>
    ELSE <<call.seed, inst.signer, inst.label, call.projections[inst.signer + 1], root>>

-----------------------------------------------------------------------------
(* Linear claims.  Adding a claim about a private cell also sends its      *)
(* value.                                                                  *)

Claim(offset, len, point, value) ==
    [offset |-> offset, len |-> len, point |-> point, value |-> value]

FixedClaim(layout, index, value) == Claim(layout.input, layout.inputLen, Fixed(index), value)

(* The cells that a family's published values fix. *)
PublicNames(label) ==
    CASE label = "c1" -> {"z", "r", "s", "qx", "qy"}
      [] label = "c2" -> {"r", "s", "qx", "qy"}
      [] label = "c3" -> {"z", "r", "s"}
      [] label = "c14" -> {"r"}
      [] OTHER -> {}

PublicClaimOfInputs(inst, projection, layout, name) ==
    IF inst.label = "c1" /\ projection[name] # None
    THEN <<FixedClaim(layout, Position(inst.label, name),
                      Value(inst.signer, name, projection[name]))>>
    ELSE <<>>

PublicClaim(inst, projection, layout, name) ==
    IF name \in PublicNames(inst.label) /\ projection[name] # None
    THEN <<FixedClaim(layout, Position(inst.label, name),
                      Value(inst.signer, name, projection[name]))>>
    ELSE <<>>

(* The published bytes of every caller are numbers below the modulus of the
   circuits' field; for others both sides end with InputBindingRejected at
   this point, and no call of Cases publishes them. *)
PublicClaims(inst, projection, layout) ==
    LET ofName(name) == PublicClaim(inst, projection, layout, name)
    IN  ofName("z") \o ofName("r") \o ofName("s") \o ofName("qx") \o ofName("qy")

PrivateClaims(names, inst, layout, values) ==
    [i \in DOMAIN names |-> FixedClaim(layout, Position(inst.label, names[i]), values[i])]

InputPoints(channel) == <<<<"left", channel>>, <<"right", channel>>>>

(* The two claims a sumcheck leaves about its whole input. *)
InputClaims(layout, proof) ==
    [i \in 1 .. 2 |-> Claim(layout.input, layout.inputLen, InputPoints(proof.channel)[i],
                            MleAt(proof.input, InputPoints(proof.channel)[i]))]

(* The MAC circuit's input is split over the groups: each of its two claims
   becomes one about each group. *)
SplitClaims(layout, lenA, proof, values) ==
    LET point(i) == InputPoints(proof.channel)[i]
    IN  <<Claim(layout.input, layout.inputLen, point(1), values[1]),
          Claim(GroupBOffset(lenA), MacHalfCount, point(1), values[2]),
          Claim(layout.input, layout.inputLen, point(2), values[3]),
          Claim(GroupBOffset(lenA), MacHalfCount, point(2), values[4])>>

SplitValues(proof) ==
    <<MleAt(proof.input, InputPoints(proof.channel)[1]),
      MleAt(proof.quotients, InputPoints(proof.channel)[1]),
      MleAt(proof.input, InputPoints(proof.channel)[2]),
      MleAt(proof.quotients, InputPoints(proof.channel)[2])>>

PadClaims(layout, proof, root, seed) ==
    IF layout.padLen = 0 THEN <<>>
    ELSE LET point == PadPoint(layout, root, seed)
         IN  <<Claim(layout.pad, layout.padLen, point, MleAt(proof.pads, point))>>

(* Of each half: its constant is one, and its value is the one sent. *)
MacClaims(layout, values) ==
    [i \in 1 .. 2 * MacHalfCount |->
        LET half == (i + 1) \div 2
        IN  IF i % 2 = 1 THEN FixedClaim(layout, 3 * half - 2, <<"one">>)
            ELSE FixedClaim(layout, 3 * half - 1, values[half])]

-----------------------------------------------------------------------------
(* The prover.                                                             *)

Insts == ProverInstances(case.prover)

Init ==
    /\ case \in Cases /\ phase = "layout" /\ at = 1
    /\ layouts = [prover |-> <<>>, verifier |-> <<>>]
    /\ bundle = [params |-> "v4", rootA |-> <<>>, rootB |-> <<>>, tags |-> <<>>,
                 groupA |-> <<>>, groupB |-> <<>>, proximity |-> <<>>, openingsA |-> <<>>,
                 openingsB |-> <<>>, entries |-> <<>>, values |-> <<>>, batch |-> <<>>]
    /\ claims = <<>> /\ cursor = 0 /\ seen = <<>> /\ outcome = "none"

(* The values to commit: one instance's input and pads. *)
LayOut ==
    /\ phase = "layout" /\ at <= Len(Insts)
    /\ LET inst == Insts[at]
       IN /\ bundle' = [bundle EXCEPT !.groupA = @ \o InputOf(inst) \o Pads(inst.label)]
          /\ layouts' = [layouts EXCEPT !.prover =
                Append(@, Layout(Len(bundle.groupA), Len(InputOf(inst)), Len(Pads(inst.label))))]
    /\ at' = at + 1
    /\ UNCHANGED <<case, phase, claims, cursor, seen, outcome>>

(* A root is named by what determines the values under it (groupA, groupB):
   the instances and the deviation, the share the quotients are for.
   Commit the inputs and pads; for an mdoc draw the verifier's MAC key share
   from that root, compute the tags, and commit the quotients they give. *)
Commit ==
    /\ phase = "layout" /\ at > Len(Insts)
    /\ LET rootA == <<"A", Insts, case.deviation>>
           av    == DrawAv(case.prover.seed, rootA)
           macs  == case.prover.mode = "mdoc"
           halves == 1 .. MacHalfCount
       IN bundle' = [bundle EXCEPT
            !.rootA = rootA, !.rootB = IF macs THEN <<"B", av>> ELSE <<>>,
            !.tags = IF macs THEN [h \in halves |-> Tag(h, av, HalfValue(h))] ELSE <<>>,
            !.groupB = IF macs THEN [h \in halves |-> Quotient(h, av, HalfValue(h))] ELSE <<>>]
    /\ phase' = "proximity" /\ at' = 1
    /\ UNCHANGED <<case, layouts, claims, cursor, seen, outcome>>

(* The proximity claim over all rows and the columns it opens, of both
   commitments at the same indices. *)
Proximity ==
    /\ phase = "proximity"
    /\ LET mode == case.prover.mode
           root == RootOf(bundle, mode)
           rowsB == IF mode = "mdoc" THEN RowCount(MacHalfCount) ELSE 0
           open(r) == [root |-> r, indices |-> ProximityIndices(root, case.prover.seed)]
       IN bundle' = [bundle EXCEPT
            !.proximity = ProximityGamma(root, RowCount(Len(bundle.groupA)) + rowsB,
                                         case.prover.seed),
            !.openingsA = open(bundle.rootA),
            !.openingsB = IF mode = "mdoc" THEN open(bundle.rootB) ELSE <<>>]
    /\ phase' = "sumcheck"
    /\ UNCHANGED <<case, at, layouts, claims, cursor, seen, outcome>>

(* One instance's sumcheck; the MAC circuit is rebuilt with the drawn share
   and the tags. *)
ProveInstance ==
    /\ phase = "sumcheck" /\ at <= Len(Insts)
    /\ LET inst == Insts[at]
           root == RootOf(bundle, case.prover.mode)
           av   == DrawAv(case.prover.seed, bundle.rootA)
       IN bundle' = [bundle EXCEPT !.entries = Append(@,
              [channel |-> InstanceChannel(inst, case.prover, root, av, bundle.tags),
               input |-> InputOf(inst), pads |-> Pads(inst.label),
               quotients |-> IF inst.label = "mac" THEN bundle.groupB ELSE <<>>])]
    /\ at' = at + 1
    /\ UNCHANGED <<case, phase, layouts, claims, cursor, seen, outcome>>

StartClaims ==
    /\ phase = "sumcheck" /\ at > Len(Insts)
    /\ phase' = "claims" /\ at' = 1
    /\ UNCHANGED <<case, layouts, bundle, claims, cursor, seen, outcome>>

(* The private cells whose values the prover sends, in order: of the final
   addition, of the curve points, of the reduction. *)
SentOfFamily(label) ==
    CASE label = "c11" -> <<"ax", "ay", "bx", "by", "rx", "ry">>
      [] label = "c12" -> <<"ax", "ay", "bx", "by", "rx", "ry">>
      [] label = "c14" -> <<"rx">>
      [] OTHER -> <<>>

(* Of an mdoc also the issuer's hash and the device's key, for the MAC. *)
SentNames(inst) ==
    SentOfFamily(inst.label)
    \o (IF case.prover.mode # "mdoc" THEN <<>>
        ELSE IF inst.signer = 0 /\ inst.label = "c3" THEN <<"z">>
        ELSE IF inst.signer = 1 /\ inst.label = "c2" THEN <<"qx", "qy">>
        ELSE <<>>)

(* What the prover sends of an instance: the split values first, then the
   private cells or the MAC halves. *)
SentValues(inst, entry) ==
    IF inst.label = "mac"
    THEN SplitValues(entry) \o [h \in 1 .. MacHalfCount |-> HalfValue(h)]
    ELSE [i \in DOMAIN SentNames(inst) |->
            CellValue(inst.signer, inst.label, SentNames(inst)[i])]

(* One instance's claims, in the order of mdoc_p4b_prover_claim_batch and
   add_prover_family_fixed_claims. *)
ProverClaimsOf(inst, layout, entry) ==
    LET root == RootOf(bundle, case.prover.mode)
        pads == PadClaims(layout, entry, root, case.prover.seed)
        sent == SentValues(inst, entry)
    IN  IF inst.label = "mac"
        THEN SplitClaims(layout, Len(bundle.groupA), entry, sent)
             \o pads \o MacClaims(layout, SubSeq(sent, 5, Len(sent)))
        ELSE InputClaims(layout, entry) \o pads
             \o PublicClaims(inst, case.prover.projections[inst.signer + 1], layout)
             \o PrivateClaims(SentNames(inst), inst, layout, sent)

ClaimInstance ==
    /\ phase = "claims" /\ at <= Len(Insts)
    /\ LET inst == Insts[at]
       IN /\ claims' = claims \o ProverClaimsOf(inst, layouts.prover[at], bundle.entries[at])
          /\ bundle' = [bundle EXCEPT !.values = @ \o SentValues(inst, bundle.entries[at])]
    /\ at' = at + 1
    /\ UNCHANGED <<case, phase, layouts, cursor, seen, outcome>>

Weights(cs) == [i \in DOMAIN cs |-> <<cs[i].offset, cs[i].len, cs[i].point>>]

(* The one combined opening of all claims. *)
Batch ==
    /\ phase = "claims" /\ at > Len(Insts)
    /\ bundle' = [bundle EXCEPT !.batch =
            [weights |-> Weights(claims),
             gamma |-> ClaimGamma(RootOf(bundle, case.prover.mode), Len(claims),
                                  case.prover.seed)]]
    /\ phase' = "sent"
    /\ UNCHANGED <<case, at, layouts, claims, cursor, seen, outcome>>

(* The bundle as the verifier decodes it: the fault of the case, if any. *)
Received(b, fault) ==
    CASE fault = "none" -> b
      [] fault = "no root b" -> [b EXCEPT !.rootB = <<>>]
      [] fault = "params" -> [b EXCEPT !.params = "other"]
      [] fault = "tag lost" -> [b EXCEPT !.tags = Tail(@)]
      [] fault = "entry lost" -> [b EXCEPT !.entries = Front(@)]
      [] fault = "entries swapped" ->
            [b EXCEPT !.entries = [@ EXCEPT ![1] = b.entries[7], ![7] = b.entries[1]]]
      [] fault = "value lost" -> [b EXCEPT !.values = Front(@)]
      [] fault = "value added" -> [b EXCEPT !.values = Append(@, Last(@))]
      [] fault = "value changed" -> [b EXCEPT !.values[7] = Value(0, "ax", 4)]
      [] fault = "indices" -> [b EXCEPT !.openingsA.indices = <<>>]
      [] fault = "indices b" -> [b EXCEPT !.openingsB.indices = <<>>]

Deliver ==
    /\ phase = "sent"
    /\ bundle' = Received(bundle, case.fault)
    /\ phase' = "setup" /\ at' = 1 /\ claims' = <<>>
    /\ UNCHANGED <<case, layouts, cursor, seen, outcome>>

-----------------------------------------------------------------------------
(* The verifier.  It learns of the prover's call only from the bundle.     *)

Expected == case.verifier
VerifierInsts == VerifierInstances(Expected)
VerifierRoot == RootOf(bundle, Expected.mode)

Answer(verdict) ==
    /\ outcome' = verdict /\ phase' = "answered"
    /\ UNCHANGED <<case, at, layouts, bundle, claims, cursor, seen>>

NothingSeen ==
    [c11 |-> <<>>, c12 |-> <<>>, c14 |-> <<>>]

(* Counts and the second root. *)
SetupVerdict ==
    IF Expected.mode = "mdoc" /\ Len(bundle.tags) # MacHalfCount THEN "WrongProofCount"
    ELSE IF Expected.mode = "mdoc" /\ bundle.rootB = <<>> THEN "ProximityOpeningRejected"
    ELSE IF Len(bundle.entries) # Len(VerifierInsts) THEN "WrongProofCount"
    ELSE "ok"

Setup ==
    /\ phase = "setup"
    /\ IF SetupVerdict # "ok" THEN Answer(SetupVerdict)
       ELSE /\ phase' = "shapes"
            /\ seen' = [signers |-> [i \in DOMAIN Expected.projections |-> NothingSeen],
                        z |-> <<>>, qx |-> <<>>, qy |-> <<>>, mac |-> <<>>]
            /\ UNCHANGED <<case, at, layouts, bundle, claims, cursor, outcome>>

(* One instance's place, from the shape of the verifier's own circuit. *)
LayOutExpected ==
    /\ phase = "shapes" /\ at <= Len(VerifierInsts)
    /\ LET label == VerifierInsts[at].label
       IN layouts' = [layouts EXCEPT !.verifier =
            Append(@, Layout(CommittedLen(@), InputLen(label), PadLen[label]))]
    /\ at' = at + 1
    /\ UNCHANGED <<case, phase, bundle, claims, cursor, seen, outcome>>

(* The parameters are the code's; the indices are the verifier's own draw, for
   both groups; the openings and the proximity claim are of the bundle's roots. *)
OpeningsHold ==
    LET mode == Expected.mode
        drawn == ProximityIndices(VerifierRoot, Expected.seed)
        rowsB == IF mode = "mdoc" THEN RowCount(MacHalfCount) ELSE 0
    IN  /\ bundle.params = "v4"
        /\ bundle.openingsA = [root |-> bundle.rootA, indices |-> drawn]
        /\ mode = "mdoc" => bundle.openingsB = [root |-> bundle.rootB, indices |-> drawn]
        /\ bundle.proximity = ProximityGamma(VerifierRoot,
                                RowCount(CommittedLen(layouts.verifier)) + rowsB, Expected.seed)

CheckOpenings ==
    /\ phase = "shapes" /\ at > Len(VerifierInsts)
    /\ IF ~OpeningsHold THEN Answer("ProximityOpeningRejected")
       ELSE /\ phase' = "instances" /\ at' = 1
            /\ UNCHANGED <<case, layouts, bundle, claims, cursor, seen, outcome>>

Code(values, i) == values[i][4]

(* The relation a family's circuit states of the cells it holds: the key on
   the curve, the final addition, every point on the curve, the reduction of
   the final x to r. It is stated of inputs whose constant-one wire is one:
   the linear claims fix that wire for the MAC halves only, and what a family
   says of another value of it is not modelled. *)
EcdsaSatisfied(label, values) ==
    CASE label \in {"c1", "c3"} -> TRUE
      [] label = "c2" -> Code(values, 3) = Code(values, 4)
      [] label = "c11" -> \A i \in 1 .. 6 : Code(values, i) = Code(values, 1)
      [] label = "c12" -> \A i \in {1, 3, 5} : Code(values, i) = Code(values, i + 1)
      [] label = "c14" -> Code(values, 1) = Code(values, 2)

(* Each half's tag is that of its value and key share under the drawn share,
   and the committed quotients say so. *)
MacSatisfied(values, quotients, av, tags) ==
    \A h \in 1 .. MacHalfCount :
        /\ values[3 * h - 2] = <<"one">> /\ values[3 * h] = <<"share", h>>
        /\ tags[h] = Tag(h, av, values[3 * h - 1])
        /\ quotients[h] = Quotient(h, av, values[3 * h - 1])

SumcheckHolds(inst, entry) ==
    LET av == DrawAv(Expected.seed, bundle.rootA)
    IN  /\ entry.channel = InstanceChannel(inst, Expected, VerifierRoot, av, bundle.tags)
        /\ IF inst.label = "mac"
           THEN MacSatisfied(entry.input, entry.quotients, av, bundle.tags)
           ELSE Len(entry.input) = InputLen(inst.label)
                /\ EcdsaSatisfied(inst.label, entry.input)

(* The private cells whose values the verifier takes, in the order of its own
   walk: add_inputs and final of C11; C12's corrected endpoints, then its
   final point; C14's x; then what its role adds. *)
TakenOfFamily(label) ==
    CASE label = "c11" -> <<"ax", "ay", "bx", "by">> \o <<"rx", "ry">>
      [] label = "c12" -> <<"ax", "ay">> \o <<"bx", "by">> \o <<"rx", "ry">>
      [] label = "c14" -> <<"rx">>
      [] OTHER -> <<>>

TakenOfRole(inst) ==
    IF Expected.mode = "mdoc" /\ inst.signer = 0 /\ inst.label = "c3" THEN <<"z">>
    ELSE IF Expected.mode = "mdoc" /\ inst.signer = 1 /\ inst.label = "c2" THEN <<"qx", "qy">>
    ELSE <<>>

TakenNames(inst) == TakenOfFamily(inst.label) \o TakenOfRole(inst)

(* The consistency values the verifier takes of an instance. *)
TakenCount(inst) ==
    IF inst.label = "mac" THEN 4 + MacHalfCount ELSE Len(TakenNames(inst))

Taken(inst) == SubSeq(bundle.values, cursor + 1, cursor + TakenCount(inst))

SplitAgrees(entry, taken) == SubSeq(taken, 1, 4) = SplitValues(entry)

VerifierClaimsOf(inst, layout, entry, taken) ==
    LET pads == PadClaims(layout, entry, VerifierRoot, Expected.seed)
    IN  IF inst.label = "mac"
        THEN SplitClaims(layout, CommittedLen(layouts.verifier), entry, taken)
             \o pads \o MacClaims(layout, SubSeq(taken, 5, Len(taken)))
        ELSE InputClaims(layout, entry) \o pads
             \o PublicClaims(inst, Expected.projections[inst.signer + 1], layout)
             \o PrivateClaims(TakenNames(inst), inst, layout, taken)

(* What is kept of the values taken: the final addition's operands and sum,
   the corrected endpoints and the final point, the x that is reduced; the
   issuer's hash, the device's key, the MAC halves. *)
Remember(inst, taken) ==
    CASE inst.label = "mac" -> [seen EXCEPT !.mac = SubSeq(taken, 5, Len(taken))]
      [] inst.label \in {"c11", "c12", "c14"} ->
            [seen EXCEPT !.signers[inst.signer + 1][inst.label] = taken]
      [] inst.label = "c3" /\ TakenOfRole(inst) # <<>> -> [seen EXCEPT !.z = taken[1]]
      [] inst.label = "c2" /\ TakenOfRole(inst) # <<>> ->
            [seen EXCEPT !.qx = taken[1], !.qy = taken[2]]
      [] OTHER -> seen

FamiliesAgreeOnSum(s) ==
    /\ \A family \in DOMAIN s : s[family] # <<>>
    /\ SubSeq(s.c11, 5, 6) = SubSeq(s.c12, 5, 6)
    /\ s.c11[5] = s.c14[1]

(* MdocP4bEcdsaConsistency::verify. *)
FamiliesAgree(s) ==
    /\ \A family \in DOMAIN s : s[family] # <<>>
    /\ SubSeq(s.c12, 1, 4) = SubSeq(s.c11, 1, 4)
    /\ SubSeq(s.c11, 5, 6) = SubSeq(s.c12, 5, 6)
    /\ s.c11[5] = s.c14[1]

(* In a batch a signature is judged before the next one is walked. *)
JudgedEarly(inst, after) ==
    Expected.mode = "batch" /\ inst.label = "c14" => FamiliesAgree(after.signers[inst.signer + 1])

(* One instance: its sumcheck, its claims, the values it takes. *)
VerifyInstance ==
    /\ phase = "instances" /\ at <= Len(VerifierInsts)
    /\ LET inst   == VerifierInsts[at]
           layout == layouts.verifier[at]
           entry  == bundle.entries[at]
           taken  == Taken(inst)
       IN IF ~SumcheckHolds(inst, entry) THEN Answer("Sumcheck")
          ELSE IF \/ cursor + TakenCount(inst) > Len(bundle.values)
                  \/ inst.label = "mac" /\ ~SplitAgrees(entry, taken)
               THEN Answer("InputClaimOpeningRejected")
          ELSE IF ~JudgedEarly(inst, Remember(inst, taken))
               THEN Answer("CrossFamilyBindingRejected")
          ELSE /\ claims' = claims \o VerifierClaimsOf(inst, layout, entry, taken)
               /\ cursor' = cursor + TakenCount(inst)
               /\ seen' = Remember(inst, taken)
               /\ at' = at + 1
               /\ UNCHANGED <<case, phase, layouts, bundle, outcome>>

(* A 256-bit value from its halves; the code of a half is a bit, that of a
   whole value the two bits of its halves. *)
Recompose(lo, hi) == Value(lo[2], lo[3], lo[4] + 2 * hi[4])

MacAgreesOnHash ==
    /\ Recompose(seen.mac[1], seen.mac[2]) = seen.z

MacAgrees ==
    /\ Recompose(seen.mac[1], seen.mac[2]) = seen.z
    /\ Recompose(seen.mac[3], seen.mac[4]) = seen.qx
    /\ Recompose(seen.mac[5], seen.mac[6]) = seen.qy

(* A claim holds of what the roots commit to. *)
Holds(claim) ==
    LET offsetB == GroupBOffset(Len(bundle.groupA))
        inB     == Expected.mode = "mdoc" /\ claim.offset >= offsetB
        slice   == IF inB THEN SubSeq(bundle.groupB, claim.offset - offsetB + 1,
                                      claim.offset - offsetB + claim.len)
                   ELSE SubSeq(bundle.groupA, claim.offset + 1, claim.offset + claim.len)
    IN  IF claim.point[1] = "fixed" THEN slice[claim.point[2]] = claim.value
        ELSE claim.value = MleAt(slice, claim.point)

BatchHolds ==
    /\ bundle.batch.weights = Weights(claims)
    /\ bundle.batch.gamma = ClaimGamma(VerifierRoot, Len(claims), Expected.seed)
    /\ \A i \in DOMAIN claims : Holds(claims[i])

ConcludeEarly ==
    /\ phase = "instances" /\ at > Len(VerifierInsts)
    /\ Answer(IF \/ \E i \in DOMAIN seen.signers : ~FamiliesAgree(seen.signers[i])
                 \/ Expected.mode = "mdoc" /\ ~MacAgrees
              THEN "CrossFamilyBindingRejected"
              ELSE IF ~BatchHolds THEN "InputClaimOpeningRejected" ELSE "accepted")

(* After the last instance: nothing left over, the families of every signer
   agree, the MAC is over the signed hash and the device's key, and the
   batch opens every claim. *)
Conclude ==
    /\ phase = "instances" /\ at > Len(VerifierInsts)
    /\ Answer(IF cursor # Len(bundle.values) THEN "InputClaimOpeningRejected"
              ELSE IF \/ \E i \in DOMAIN seen.signers : ~FamiliesAgree(seen.signers[i])
                      \/ Expected.mode = "mdoc" /\ ~MacAgrees
                   THEN "CrossFamilyBindingRejected"
              ELSE IF ~BatchHolds THEN "InputClaimOpeningRejected" ELSE "accepted")

Answered == phase = "answered" /\ UNCHANGED vars

Next == \/ LayOut \/ Commit \/ Proximity \/ ProveInstance \/ StartClaims \/ ClaimInstance \/ Batch
        \/ Deliver \/ Setup \/ LayOutExpected \/ CheckOpenings \/ VerifyInstance \/ Conclude \/ Answered

Spec == Init /\ [][Next]_vars
-----------------------------------------------------------------------------
(***************************************************************************)
(* Properties.                                                             *)
(***************************************************************************)

(* The signature's own values, undamaged, for the call the verifier expects. *)
Honest ==
    /\ case.deviation = {} /\ case.fault = "none" /\ case.verifier = case.prover
    /\ \A i \in DOMAIN case.prover.projections :
            \A name \in DOMAIN case.prover.projections[i] :
                case.prover.projections[i][name] \in {None, 0}

(* An honest bundle is accepted in every mode, with every projection. *)
HonestIsAccepted == Honest /\ outcome # "none" => outcome = "accepted"

(* The cells of a name hold one value in the families listed. *)
Together(signer, name, labels) ==
    \A a, b \in labels : CellValue(signer, a, name) = CellValue(signer, b, name)

(* An accepted bundle commits to one final point and one pair of operands in
   the families that hold them, whatever was put into their cells. *)
AcceptedIsOnePoint ==
    outcome = "accepted" =>
        \A i \in DOMAIN Expected.projections :
            /\ \A name \in {"ax", "ay", "bx", "by", "ry"} : Together(i - 1, name, {"c11", "c12"})
            /\ Together(i - 1, "rx", {"c11", "c12", "c14"})

(* Every value the verifier's projection publishes is the committed one, in
   each family whose circuit reads it. *)
AcceptedIsPublished ==
    outcome = "accepted" =>
        \A i \in DOMAIN Expected.projections : \A label \in {"c1", "c2", "c3", "c14"} :
            \A name \in PublicNames(label) :
                Expected.projections[i][name] # None =>
                    CellValue(i - 1, label, name)
                        = Value(i - 1, name, Expected.projections[i][name])

(* The tags of an accepted mdoc bundle are computed under the share drawn
   from its first root, over the halves of the hash that the issuer signed and
   of the key that the device signs with. *)
AcceptedMacIsOverSigned ==
    outcome = "accepted" /\ Expected.mode = "mdoc" =>
        /\ \A h \in 1 .. MacHalfCount :
                bundle.tags[h] = Tag(h, DrawAv(Expected.seed, bundle.rootA), HalfValue(h))
        /\ \A h \in {1, 3, 5} :
                Recompose(HalfValue(h), HalfValue(h + 1))
                    = CellValue(Half[h][1], IF h = 1 THEN "c3" ELSE "c2", Half[h][2])

(* No bundle is accepted for another call, nor after a fault. *)
AcceptedIsIntended ==
    outcome = "accepted" => case.verifier = case.prover /\ case.fault = "none"
=============================================================================
