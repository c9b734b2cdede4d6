---------------------------- MODULE MCMdocBinding ----------------------------
(* Small credentials: digests and key coordinates of three bytes, ids of two, *)
(* and the canonical order of an item (random, digestID, elementValue,        *)
(* elementIdentifier). The random bytes of one item contain its value.        *)
EXTENDS MdocBinding, SequencesExt

MCHash(m) ==
    LET h(base, seed) == FoldSeq(LAMBDA b, acc : (base * acc + b) % 251, seed, m)
    IN  <<h(7, 1), h(31, 5), h(11, 3)>>

Text(y3, y4, m1, m2, d1, d2) ==
    <<50, 48, 48 + y3, 48 + y4, Dash, 48 + m1, 48 + m2, Dash, 48 + d1, 48 + d2>>

Attribute(mode, element, id, salt, value) ==
    [mode |-> mode, element |-> element, value |-> value,
     headLen |-> 1, digestId |-> id,
     item |-> salt \o <<id>> \o value \o ElementAnchor(element) \o element]

BirthName == <<66>>
CountryName == <<67>>
FamilyName == <<70, 71>>
GivenName == <<72>>
LongName == [j \in 1 .. 24 |-> 74]   \* its head takes two bytes

TextBirth == Attribute("age", BirthName, 1, <<11>>, Text(0, 0, 0, 2, 2, 9))
LateBirth == Attribute("age", BirthName, 1, <<14>>, Text(1, 1, 0, 2, 2, 8))
PackedBirth == Attribute("age", BirthName, 30, <<12>>, <<7, 208, 2, 29>>)
Country == Attribute("alpha2", CountryName, 2, <<13>>, <<69, 83>>)
SaltedCountry == Attribute("alpha2", CountryName, 2, <<69, 83, 13>>, <<69, 83>>)
OtherCountry == Attribute("alpha2", CountryName, 2, <<15>>, <<70, 82>>)
Family == Attribute("equality", FamilyName, 3, <<18>>, <<98, 90>>)
Given == Attribute("equality", GivenName, 4, <<20>>, <<97, 92>>)
Long == Attribute("equality", LongName, 4, <<20>>, <<97, 92>>)

Digests(attributes) ==
    FoldSeq(LAMBDA a, acc : acc \o DigestAnchor(a.digestId) \o MCHash(a.item), <<>>, attributes)

Credential(attributes, x, y, from, until) ==
    LET mso == <<8>> \o Digests(attributes) \o KeyXAnchor \o x \o KeyYAnchor \o y
                   \o TdateAnchor(ValidFromLabel) \o from
                   \o TdateAnchor(ValidUntilLabel) \o until
    IN  [issuer |-> <<9>> \o mso, mso |-> mso, device |-> <<5, 6>>, keyX |-> x, keyY |-> y,
         validFrom |-> from, validUntil |-> until, attributes |-> attributes]

From2024 == Text(2, 4, 0, 1, 3, 1)
Until2025 == Text(2, 5, 1, 2, 0, 1)
Until2024 == Text(2, 4, 1, 2, 3, 1)
X == <<71, 72, 75>>
Y == <<73, 74, 76>>

Pid == Credential(<<TextBirth, Country>>, X, Y, From2024, Until2025)
PackedPid == Credential(<<Family, PackedBirth>>, X, Y, From2024, Until2025)
NamesOnly == Credential(<<Long>>, X, Y, From2024, Until2025)
FullPid == Credential(<<SaltedCountry, Family, TextBirth, Given>>, X, Y, From2024, Until2025)
(* Other messages of Pid's shape: other items, a past date, another key.      *)
OtherPid == Credential(<<LateBirth, OtherCountry>>, X, Y, From2024, Until2025)
ExpiredPid == Credential(<<TextBirth, Country>>, X, Y, From2024, Until2024)
OtherKeyPid == Credential(<<TextBirth, Country>>, Y, X, From2024, Until2025)
FrenchPid == Credential(<<TextBirth, OtherCountry>>, X, Y, From2024, Until2025)
SwappedPid ==
    Credential(<<[Country EXCEPT !.digestId = 1], [TextBirth EXCEPT !.digestId = 2]>>,
               X, Y, From2024, Until2025)

MCCredentials == {Pid, PackedPid, NamesOnly, FullPid}
MCPolicies ==
    {[date |-> <<2025, 6, 15>>, oldEnough |-> {<<2000, 2, 29>>}, accepted |-> {17747, 18002}]}
MCBuilds == {"legacy", "coprocessor"}

(* Wide ranges, the direct neighbours of Pid's id, and that id as a neighbour  *)
(* of itself.                                                                 *)
LE(n) == <<n % 256, n \div 256>>
PidId == LET h == MCHash(Pid.mso) IN h[1] + 256 * h[2]
RangeOf(kind, lo, hi) == [kind |-> kind, lo |-> LE(lo), hi |-> LE(hi), epoch |-> <<1, 0, 0, 0>>]
Signed ==
    {RangeOf("signed", 0, 65535), RangeOf("signed", PidId - 1, PidId + 1),
     RangeOf("signed", PidId, 65535)}
MCRevocations == {RangeOf("none", 0, 0), RangeOf("range", 0, 65535)} \cup Signed

MCMessages ==
    [issuer |-> {c.issuer : c \in {Pid, OtherPid, FrenchPid, SwappedPid, ExpiredPid,
                                    OtherKeyPid}},
     device |-> {<<5, 6>>, <<5, 7>>},
     mso    |-> {Pid.mso, ExpiredPid.mso},
     revocation |-> {r.lo \o r.hi \o r.epoch : r \in Signed},
     item   |-> {a.item : a \in {TextBirth, LateBirth, Country, OtherCountry}}]

MCCells ==
    {MCHash(m) : m \in MCMessages.issuer \cup MCMessages.mso \cup MCMessages.item}
        \cup MCMessages.mso \cup {X, Y} \cup {LE(n) : n \in {0, PidId - 1, PidId, PidId + 1, 65535}}
        \cup {Country.value, OtherCountry.value, TextBirth.value, LateBirth.value}
        \cup {From2024, Until2025, Until2024}

(* A dishonest proof is lost when a row that was written is supplied by no    *)
(* window: every window is written before the rows, so nothing can supply it  *)
(* later. The honest prover's states are all explored.                        *)
Written(by) ==
    LET order == <<"window_bind", "validity", "payload_bind", "revocation_range", "age",
                   "nationality", "mac", "verify", "end">>
        at(name) == CHOOSE k \in DOMAIN order : order[k] = name
    IN  at(by) < at(stage)

Supplied ==
    prover = "any" /\ stage \notin {"sha", "end"} =>
        LET yielded == {YieldTuple(y) : y \in YieldSites}
            written == {u \in FieldUses : u.by # "digest_bind" /\ Written(u.by)}
        IN  /\ \A u \in written : \A j \in 1 .. Len(u.cells) : UseTuple(<<u, j>>) \in yielded
            /\ \A d \in DigestUses : d.by = "digest_bind" \/ Written(d.by) =>
                  d.digest = Hash(preimages[d.source])
=============================================================================
