------------------------ MODULE MCCoprocessorBundle -------------------------
(***************************************************************************)
(* Calls of CoprocessorBundle: every projection of two or three signers,   *)
(* with and without revocation, in both modes; every cell a claim reads    *)
(* deviating alone, with its family, or with the same cell of the other    *)
(* families; every fault; every argument of the verifier differing.        *)
(***************************************************************************)
EXTENDS CoprocessorBundle

Publishing(names) == [n \in PublicFields |-> IF n \in names THEN 0 ELSE None]
Full == Publishing(PublicFields)
KeyOnly == Publishing({"qx", "qy"})
HashOnly == Publishing({"z"})
Kinds == {Full, KeyOnly, HashOnly}

Mdoc(projections) ==
    [mode |-> "mdoc", projections |-> projections, seed |-> 0]
BatchOf(projections) ==
    [mode |-> "batch", projections |-> projections, seed |-> 0]

Same(call, deviation, fault) ==
    [prover |-> call, verifier |-> call, deviation |-> deviation, fault |-> fault]

Usual == Mdoc(<<KeyOnly, HashOnly>>)
Revoked == Mdoc(<<KeyOnly, HashOnly, KeyOnly>>)
Single == BatchOf(<<Full>>)

HonestCases ==
    {Same(Mdoc(p), {}, "none") : p \in [1 .. 2 -> Kinds] \cup [1 .. 3 -> Kinds]}
    \cup {Same(BatchOf(p), {}, "none") : p \in [1 .. 1 -> Kinds] \cup [1 .. 2 -> Kinds]}

CellsOf(signer) ==
    UNION {{<<signer, label, Cells(label)[i]>> : i \in DOMAIN Cells(label)} : label \in ToSet(Families)}

Deviations(signer) ==
    {{c} : c \in CellsOf(signer)}
    \cup {{c \in CellsOf(signer) : c[2] = label} : label \in ToSet(Families)}
    \cup {{c \in CellsOf(signer) : c[3] = name} : name \in PublicFields \cup {"ax", "rx", "ry"}}
    \cup {{c \in CellsOf(signer) : c[2] \in {"c11", "c12", "c14"} /\ c[3] # "z"},
          {c \in CellsOf(signer) : c[2] \in {"c11", "c12"}},
          {c \in CellsOf(signer) : c[2] = "c12" /\ c[3] \in {"ax", "ay"}},
          {c \in CellsOf(signer) : c[2] = "c12" /\ c[3] \in {"rx", "ry"}},
          {c \in CellsOf(signer) : c[2] \in {"c12", "c14"} /\ c[3] \in {"rx", "ry", "r"}},
          {c \in CellsOf(signer) : c[3] \in {"qx", "qy"}},
          {c \in CellsOf(signer) : c[3] \in {"qx", "qy"} /\ c[2] = "c2"}}

MacDeviations ==
    {{<<"mac", h>>} : h \in 1 .. 6} \cup {{<<"mac", 1>>, <<"mac", 2>>}}
    \cup {{<<"mac", 1>>, <<"mac", 2>>} \cup {c \in CellsOf(0) : c[3] = "z"}}
    \cup {{<<"mac", h>> : h \in 3 .. 6} \cup {c \in CellsOf(1) : c[3] \in {"qx", "qy"}}}

DeviatingCases ==
    {Same(call, d, "none") : call \in {Usual, Revoked},
                             d \in Deviations(0) \cup Deviations(1) \cup MacDeviations}
    \cup {Same(Revoked, d, "none") : d \in Deviations(2)}
    \cup {Same(call, d, "none") : call \in {Single, BatchOf(<<KeyOnly, HashOnly>>)},
                                  d \in Deviations(0)}

FaultyCases ==
    {Same(call, {}, f) : call \in {Usual, Revoked},
        f \in {"no root b", "params", "tag lost", "entry lost", "entries swapped", "value lost",
               "value added", "value changed", "indices", "indices b"}}
    \cup {Same(Single, {}, f) : f \in {"params", "entry lost", "value lost", "value added",
                                       "value changed", "indices"}}

Differing(call, other) == [prover |-> call, verifier |-> other, deviation |-> {}, fault |-> "none"]

OtherCalls(call) ==
    {[call EXCEPT !.seed = 1], [call EXCEPT !.mode = IF call.mode = "mdoc" THEN "batch" ELSE "mdoc"]}
    \cup {[call EXCEPT !.projections[i] = p] :
              i \in DOMAIN call.projections, p \in Kinds \cup {[KeyOnly EXCEPT !["qx"] = 3],
                                                             [HashOnly EXCEPT !["z"] = 3]}}

Intended == {Usual, Revoked, Single, BatchOf(<<KeyOnly, HashOnly>>), BatchOf(<<KeyOnly, KeyOnly>>)}

DifferingCases ==
    UNION {{Differing(call, other) : other \in OtherCalls(call) \ {call}} : call \in Intended}
    \cup {Differing(Usual, Revoked), Differing(Revoked, Usual),
          Differing(Single, BatchOf(<<Full, Full>>)), Differing(BatchOf(<<Full, Full>>), Single)}
    \cup UNION {{[prover |-> call, verifier |-> call, deviation |-> {}, fault |-> "none"] :
                     call \in OtherCalls(c)} : c \in {Usual}}

AllCases ==
    {c \in HonestCases \cup DeviatingCases \cup FaultyCases \cup DifferingCases :
        IsCall(c.prover) /\ IsCall(c.verifier)}

PadLens == [label \in ToSet(Families) \cup {"mac"} |-> IF label \in {"c3", "c14"} THEN 0 ELSE 2]
=============================================================================
