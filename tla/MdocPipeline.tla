---------------------------- MODULE MdocPipeline ----------------------------
(***************************************************************************)
(* How crates/eu-id-prover/src/mdoc.rs and lib.rs wire modules into one    *)
(* proof: which modules, in which order, over which shared handles, and    *)
(* what is compared before the verification proper.                        *)
(*                                                                         *)
(* A statement is a record                                                 *)
(*   coprocessor  the ec-coprocessor build feature                         *)
(*   attributes   how many attributes are disclosed                        *)
(*   age, nat     the attribute each predicate reads, or 0                 *)
(*   range, public, signature                                              *)
(*                the three optional parts of a TS13 revocation check      *)
(*   value        what each aspect of the statement says                   *)
(***************************************************************************)
EXTENDS Naturals, Sequences

MdocAspects == {"date", "age", "nat", "request", "issuerKey", "session",
                "revocationKey", "epoch"}

H(name) == <<name, 0>>
AttributeDigest(i) == <<"attribute_digest", i>>
AttributeField(i) == <<"attribute_field", i>>

Quiet == [name |-> H("module"), public |-> {}, fixed |-> {}, draws |-> FALSE, sets |-> {},
          early |-> {}, late |-> {}, post |-> "none", projection |-> {}]

(* A module that draws relations of its own or hands some out. *)
Drawing(name, i, public, sets, late) ==
    [Quiet EXCEPT !.name = <<name, i>>, !.public = public, !.draws = TRUE,
                  !.sets = sets, !.late = late]

(* A SHA-256 module that shares the lookup tables of sha_tables: it reads  *)
(* the table relations while it draws its digest and field relations.      *)
Sha(name, i, sets) ==
    [Drawing(name, i, {}, sets, {}) EXCEPT !.early = {H("sha_tables")}]

PublicDigestBind(name, public, digest) ==
    [Quiet EXCEPT !.name = <<name, 0>>, !.public = public, !.late = {digest}]

(* ScalarZ -> digest bridge, and the P-256 module that provides the scalar *)
(* (the build without the coprocessor).                                    *)
P256(name, public, sets) == Drawing(name, 0, public, sets, {})
DigestBind(name, scalarZ, digest) == Drawing(name, 0, {}, {}, {scalarZ, digest})

Optional(present, module) == IF present THEN <<module>> ELSE <<>>

ShaTables == Drawing("sha_tables", 0, {}, {H("sha_tables")}, {})

IssuerSha == Sha("issuer_sha", 0, {H("issuer_digest"), H("issuer_field")})

DeviceSha == Sha("device_sha", 0, {H("device_digest")})

(* Mutant: the payload relation is not handed out. *)
MsoShaWithoutField == Sha("mso_sha", 0, {H("mso_digest")})

MsoSha == Sha("mso_sha", 0, {H("mso_digest"), H("mso_field")})

RevocationSha ==
    Sha("revocation_sha", 0, {H("revocation_digest"), H("revocation_message_field")})

AttributeSha(i) == Sha("attribute_sha", i, {AttributeDigest(i), AttributeField(i)})

(* Its expected bytes are constant columns of tree 0. *)
WindowBind(st) ==
    [Drawing("mdoc_window_bind", 0, {"request"}, {},
             {H("issuer_field")}
                 \cup {AttributeField(i) : i \in 1 .. st.attributes}
                 \cup {AttributeDigest(i) : i \in 1 .. st.attributes})
        EXCEPT !.fixed = {"request"}]

Validity == Drawing("mdoc_validity", 0, {"date"}, {}, {H("issuer_field")})

MsoPayloadBind == Drawing("mso_payload_bind", 0, {}, {}, {H("issuer_field"), H("mso_field")})

(* The calendar and the accepted nationalities are tree-0 tables. *)
Age(field) == [Drawing("age", 0, {"age"}, {}, {field}) EXCEPT !.fixed = {"age"}]
Nat256(field) == [Drawing("nat", 0, {"nat"}, {}, {field}) EXCEPT !.fixed = {"nat"}]

RevocationPublic == [Quiet EXCEPT !.name = H("revocation_public"), !.public = {"revocationKey", "epoch"}]

RevocationRange(st) ==
    Drawing("revocation_range", 0, {}, {},
            {H("mso_digest")} \cup (IF st.signature THEN {H("revocation_message_field")} ELSE {}))

MdocCoprocessor ==
    [Quiet EXCEPT !.name = H("coprocessor"), !.post = "bundle",
                  !.projection = {"issuerKey", "session"}]

MdocMac ==
    [Drawing("mdoc_mac", 0, {}, {}, {H("issuer_digest"), H("issuer_field")})
        EXCEPT !.post = "mac"]

(* The module list of an mdoc proof, on either side. *)
MdocModules(st) ==
    <<ShaTables>>
    \o (IF st.coprocessor
        THEN <<IssuerSha, DeviceSha,
               PublicDigestBind("device_public_digest_bind", {"session"}, H("device_digest"))>>
        ELSE <<P256("issuer_p256", {"issuerKey"}, {H("issuer_scalar_z")}), IssuerSha,
               DigestBind("issuer_bridge", H("issuer_scalar_z"), H("issuer_digest")),
               P256("device_p256", {"session"}, {H("device_scalar_z")}), DeviceSha,
               DigestBind("device_bridge", H("device_scalar_z"), H("device_digest"))>>)
    \o Optional(~st.coprocessor /\ st.signature,
                P256("revocation_p256", {"revocationKey"}, {H("revocation_scalar_z")}))
    \o Optional(st.range, MsoSha)
    \o Optional(st.signature, RevocationSha)
    \o Optional(~st.coprocessor /\ st.signature,
                DigestBind("revocation_bridge", H("revocation_scalar_z"), H("revocation_digest")))
    \o Optional(st.coprocessor /\ st.signature,
                PublicDigestBind("revocation_public_digest_bind", {}, H("revocation_digest")))
    \o [i \in 1 .. st.attributes |-> AttributeSha(i)]
    \o <<WindowBind(st), Validity>>
    \o Optional(st.range, MsoPayloadBind)
    \o Optional(st.age # 0, Age(AttributeField(st.age)))
    \o Optional(st.nat # 0, Nat256(AttributeField(st.nat)))
    \o Optional(st.public, RevocationPublic)
    \o Optional(st.range, RevocationRange(st))
    \o (IF st.coprocessor THEN <<MdocCoprocessor, MdocMac>> ELSE <<>>)

(* A revocation signature needs the public inputs and the range witness:   *)
(* proving without them is an error.                                       *)
Provable(st) == st.signature => st.public /\ st.range

(* What verify compares between the proof and its own statement before it  *)
(* builds modules.                                                         *)
MdocGates(p, v) ==
    /\ p.coprocessor = v.coprocessor
    /\ (p.age # 0) = (v.age # 0) /\ (v.age # 0 => p.value["age"] = v.value["age"])
    /\ (p.nat # 0) = (v.nat # 0) /\ (v.nat # 0 => p.value["nat"] = v.value["nat"])
    /\ p.range = v.range
    /\ p.signature = v.signature
    /\ p.attributes = v.attributes
    /\ v.signature => v.public /\ p.value["revocationKey"] = v.value["revocationKey"]
    /\ ~v.coprocessor =>
           p.value["issuerKey"] = v.value["issuerKey"] /\ p.value["session"] = v.value["session"]

----------------------------------------------------------------------------
(* The identity pipeline of lib.rs: no shared SHA tables, one credential   *)
(* field relation, no MAC.                                                 *)
IdentitySha == Drawing("sha", 0, {}, {H("digest"), H("field")}, {})

IdentityModules(st) ==
    IF st.coprocessor
    THEN <<IdentitySha, PublicDigestBind("public_digest_bind", {}, H("digest")),
           Age(H("field")), Nat256(H("field")),
           [Quiet EXCEPT !.name = H("coprocessor"), !.post = "batch",
                         !.projection = {"issuerKey", "session"}]>>
    ELSE <<P256("p256", {"issuerKey"}, {H("scalar_z")}), P256("nonce_p256", {"session"}, {}),
           IdentitySha, DigestBind("bridge", H("scalar_z"), H("digest")),
           Age(H("field")), Nat256(H("field"))>>

(* Issuer key, policy and the holder's nonce instance are compared first. *)
IdentityGates(p, v) ==
    /\ p.coprocessor = v.coprocessor
    /\ \A a \in {"issuerKey", "age", "nat", "session"} : p.value[a] = v.value[a]
=============================================================================
