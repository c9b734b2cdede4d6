--------------------------- MODULE MCMdocPipeline ---------------------------
(* The mdoc and identity pipelines, with every optional module in and out, *)
(* run against a verifier with the prover's statement or one that differs  *)
(* from it in one aspect or one option.                                    *)
EXTENDS AirCompose, MdocPipeline, FiniteSets

Statement(coprocessor, attributes, age, nat, revocation) ==
    [coprocessor |-> coprocessor, attributes |-> attributes, age |-> age, nat |-> nat,
     range |-> "range" \in revocation, public |-> "public" \in revocation,
     signature |-> "signature" \in revocation, value |-> [a \in MdocAspects |-> 1]]

\* How many attributes, and which of them the two predicates read.
Disclosures == {<<1, 0, 0>>, <<1, 1, 0>>, <<2, 1, 0>>, <<2, 1, 2>>}

\* Every disclosure without a revocation check, the last one with every check.
MCStatements ==
    {Statement(b, d[1], d[2], d[3], {}) : b \in BOOLEAN, d \in Disclosures}
        \cup {st \in {Statement(b, 2, 1, 2, rev) :
                         b \in BOOLEAN, rev \in SUBSET {"range", "public", "signature"}} :
                 Provable(st)}

Differs(p, v) == {x \in DOMAIN p : p[x] # v[x]}

\* The verifier's statement: the prover's, or another in one respect.
OtherStatements(p) ==
    {[p EXCEPT !.value[a] = 2] : a \in MdocAspects}
        \cup {v \in MCStatements : Cardinality(Differs(p, v)) = 1}

Session(p, v, modules(_), gates, pinned) ==
    [statement |-> [r \in Roles |-> IF r = "prover" THEN p.value ELSE v.value],
     modules |-> [r \in Roles |-> IF r = "prover" THEN modules(p) ELSE modules(v)],
     gates |-> gates, pinned |-> pinned]

\* The root is pinned or not for equal statements.  For others the checks
\* behind the pin are on trial, except for the smallest statement.
Pinned(p, v) == IF v = p \/ p.attributes = 1 THEN BOOLEAN ELSE {FALSE}

MdocSessions ==
    UNION {UNION {{Session(p, v, MdocModules, MdocGates(p, v), pinned) : pinned \in Pinned(p, v)} :
               v \in {p} \cup OtherStatements(p)} : p \in MCStatements}

IdentityStatements == {Statement(b, 0, 0, 0, {}) : b \in BOOLEAN}

IdentitySessions ==
    UNION {{Session(p, v, IdentityModules, IdentityGates(p, v), pinned) :
               v \in {p} \cup {[p EXCEPT !.value[a] = 2] : a \in MdocAspects},
               pinned \in BOOLEAN} : p \in IdentityStatements}

MCSessions == MdocSessions \cup IdentitySessions

MCModules == UNION {UNION {{s.modules[r][i] : i \in DOMAIN s.modules[r]} : r \in Roles} : s \in MCSessions}
MCNames == {md.name : md \in MCModules}
MCHandles == UNION {md.sets \cup md.early \cup md.late : md \in MCModules}
MCParts == {"tree0", "tree1", "claims", "swapped", "tree2", "bundle", "tree3"}
=============================================================================
