-------------------------- MODULE MdocBindingProofs --------------------------
(* What an accepted mdoc proof promises, for any credentials, messages, cells *)
(* and hash function. In a balanced sum every requirement has a yield (the    *)
(* requirements are finite); the field ids of one source are distinct, so the *)
(* yield is of the one window of that id; hence the hashed message shows the  *)
(* required cells there. The rest is that every row satisfies its own         *)
(* constraints when the verdict is given (IInv).                              *)
(*                                                                            *)
(* The converse is the last part: the windows and the requirements of a       *)
(* source pair off by their field ids, and what an honest prover requires is  *)
(* what its messages show (HInv), so that every tuple is yielded once and     *)
(* required once.                                                             *)
EXTENDS MdocBinding, FiniteSetTheorems, SequenceTheorems, WellFoundedInduction, TLAPS

(* A finite sequence of whatever; nothing is said of its elements.            *)
IsText(x) == \E S : x \in Seq(S)

LEMMA FiniteImage ==
    ASSUME NEW S, IsFiniteSet(S), NEW f
    PROVE  IsFiniteSet({f[x] : x \in S})
<1> DEFINE T == {f[x] : x \in S}
           g == [x \in S |-> f[x]]
<1>1. g \in Surjection(S, T)
  BY DEF Surjection
<1>2. IsFiniteSet(T)
  BY <1>1, FS_Surjection
<1>3. QED BY <1>2

LEMMA BytesIsText ==
    ASSUME NEW s, NEW o, NEW n \in Nat
    PROVE  IsText(Bytes(s, o, n)) /\ Len(Bytes(s, o, n)) = n
<1> DEFINE S == {preimages[s][o + j] : j \in 1 .. n}
<1>1. Bytes(s, o, n) \in [1 .. n -> S]
  BY DEF Bytes
<1>2. Bytes(s, o, n) \in Seq(S) /\ Len(Bytes(s, o, n)) = n
  <2>1. DOMAIN Bytes(s, o, n) = 1 .. n
    BY <1>1
  <2>2. \A T : \A q \in [1 .. n -> T] : q \in Seq(T) /\ Len(q) = n
    OBVIOUS
  <2> QED BY <1>1, <2>2
<1> QED BY <1>2 DEF IsText

LEMMA TextExtensionality ==
    ASSUME NEW x, IsText(x), NEW s, NEW o, \A j \in 1 .. Len(x) : preimages[s][o + j] = x[j]
    PROVE  Len(x) \in Nat /\ Bytes(s, o, Len(x)) = x
<1>1. PICK S : x \in Seq(S)
  BY DEF IsText
<1>2. Len(x) \in Nat /\ x = [j \in 1 .. Len(x) |-> x[j]]
  BY <1>1
<1> QED BY <1>2 DEF Bytes

(* A finite number of requirements of one tuple equals a number of yields, so *)
(* that what is required at all is yielded.                                   *)
LEMMA UsedIsYielded ==
    ASSUME FieldsBalance, IsFiniteSet(UseSites), NEW x \in UseSites
    PROVE  \E y \in YieldSites : YieldTuple(y) = UseTuple(x)
<1> DEFINE t == UseTuple(x)
           Y == {y \in YieldSites : YieldTuple(y) = t}
           X == {z \in UseSites : UseTuple(z) = t}
<1> HIDE DEF t
<1>1. X # {}
  BY DEF t
<1>2. IsFiniteSet(X)
  BY FS_Subset
<1>3. Cardinality(Y) = Cardinality(X)
  <2>1. t \in {UseTuple(z) : z \in UseSites}
    BY DEF t
  <2> QED BY <2>1 DEF FieldsBalance
<1>4. Y # {}
  BY <1>1, <1>2, <1>3, FS_EmptySet
<1> QED BY <1>4 DEF t

LEMMA UseSitesFinite ==
    ASSUME IsFiniteSet(FieldUses), \A u \in FieldUses : IsText(u.cells)
    PROVE  IsFiniteSet(UseSites)
<1> DEFINE f == [u \in FieldUses |-> {u} \X (1 .. Len(u.cells))]
<1>1. \A u \in FieldUses : IsFiniteSet(f[u])
  <2>1. TAKE u \in FieldUses
  <2>2. Len(u.cells) \in Nat
    <3>1. PICK S : u.cells \in Seq(S)
      BY <2>1 DEF IsText
    <3> QED BY <3>1
  <2>3. IsFiniteSet(1 .. Len(u.cells))
    BY <2>2, FS_Interval
  <2>4. IsFiniteSet({u} \X (1 .. Len(u.cells)))
    BY <2>3, FS_Singleton, FS_Product
  <2> QED BY <2>1, <2>4
<1>2. UseSites = UNION {f[u] : u \in FieldUses}
  BY DEF UseSites
<1> HIDE DEF f
<1>3. IsFiniteSet({f[u] : u \in FieldUses})
  BY FiniteImage
<1>4. \A T \in {f[u] : u \in FieldUses} : IsFiniteSet(T)
  BY <1>1
<1> QED BY <1>2, <1>3, <1>4, FS_UNION

LEMMA YieldSite ==
    ASSUME NEW y \in YieldSites
    PROVE  \E s \in Sources : \E w \in Exposure(s) : \E j \in 1 .. w.len :
              YieldTuple(y) = <<s, w.field, j, preimages[s][w.offset + j]>>
<1>1. PICK s \in Sources : y \in UNION {{s} \X {w} \X (1 .. w.len) : w \in Exposure(s)}
  BY DEF YieldSites
<1>2. PICK w \in Exposure(s) : y \in {s} \X {w} \X (1 .. w.len)
  BY <1>1
<1>3. PICK j \in 1 .. w.len : y = <<s, w, j>>
  BY <1>2
<1>4. YieldTuple(y) = <<s, w.field, j, preimages[s][w.offset + j]>>
  BY <1>3 DEF YieldTuple
<1> QED BY <1>4

(* A window with the only field id of its kind shows the cells of its reader. *)
LEMMA UseReads ==
    ASSUME FieldsBalance, IsFiniteSet(UseSites), NEW u \in FieldUses, IsText(u.cells),
           NEW o, \A w \in Exposure(u.source) : w.field = u.field => w.offset = o
    PROVE  Len(u.cells) \in Nat /\ Bytes(u.source, o, Len(u.cells)) = u.cells
<1>1. \A j \in 1 .. Len(u.cells) : preimages[u.source][o + j] = u.cells[j]
  <2>1. TAKE j \in 1 .. Len(u.cells)
  <2>2. <<u, j>> \in UseSites
    BY <2>1 DEF UseSites
  <2>3. UseTuple(<<u, j>>) = <<u.source, u.field, j, u.cells[j]>>
    BY DEF UseTuple
  <2>4. PICK y \in YieldSites : YieldTuple(y) = <<u.source, u.field, j, u.cells[j]>>
    BY <2>2, <2>3, UsedIsYielded
  <2>5. PICK s \in Sources : \E w \in Exposure(s) : \E k \in 1 .. w.len :
            <<u.source, u.field, j, u.cells[j]>>
                = <<s, w.field, k, preimages[s][w.offset + k]>>
    BY <2>4, YieldSite
  <2>6. PICK w \in Exposure(s) : \E k \in 1 .. w.len :
            <<u.source, u.field, j, u.cells[j]>>
                = <<s, w.field, k, preimages[s][w.offset + k]>>
    BY <2>5
  <2>7. s = u.source /\ w.field = u.field /\ u.cells[j] = preimages[s][w.offset + j]
    BY <2>6
  <2>8. w.offset = o
    BY <2>6, <2>7
  <2> QED BY <2>7, <2>8
<1> QED BY <1>1, TextExtensionality

LEMMA DigestIsHash ==
    ASSUME DigestsBalance, IsFiniteSet(DigestUses), NEW d \in DigestUses
    PROVE  Hash(preimages[d.source]) = d.digest
<1> DEFINE t == <<d.source, d.digest>>
<1>1. IsFiniteSet(UsedDigests(t)) /\ UsedDigests(t) # {}
  BY FS_Subset DEF UsedDigests
<1>2. Cardinality(YieldedDigests(t)) = Cardinality(UsedDigests(t))
  BY DEF DigestsBalance
<1>3. YieldedDigests(t) # {}
  BY <1>1, <1>2, FS_EmptySet
<1> QED BY <1>3 DEF YieldedDigests

-----------------------------------------------------------------------------
(* The shape of a statement that was extracted.                               *)

LocatedText(located) == IsText(located.anchor)

AttributeShape(a) ==
    /\ a.mode \in {"age", "alpha2", "equality"}
    /\ IsText(a.element) /\ LocatedText(a.name)
    /\ IsText(a.value) /\ IsText(a.head) /\ LocatedText(a.digest)

AttributesShape ==
    /\ \E n \in 1 .. MAX_DISCLOSED_ATTRIBUTES : Attributes = 1 .. n
    /\ \A i \in Attributes : AttributeShape(statement.attributes[i])

StatementShape ==
    /\ AttributesShape
    /\ LocatedText(statement.keyX) /\ LocatedText(statement.keyY)
    /\ LocatedText(statement.from) /\ LocatedText(statement.until)
    /\ IsText(statement.deviceKey[1]) /\ IsText(statement.deviceKey[2])
    /\ statement.revocation.epoch \in Seq(Int)

(* The field ids of one source are distinct, for up to four attributes.       *)
LEMMA IssuerWindows ==
    ASSUME AttributesShape, NEW w \in Exposure(Issuer)
    PROVE  /\ \A i \in Attributes :
                 /\ w.field = DigestField(i) => w.offset = statement.attributes[i].digest.offset
                 /\ w.field = DigestAnchorField(i)
                        => w.offset = statement.attributes[i].digest.anchorOffset
           /\ w.field = DEVICE_KEY_X => w.offset = statement.keyX.offset
           /\ w.field = DEVICE_KEY_Y => w.offset = statement.keyY.offset
           /\ w.field = VALID_FROM => w.offset = statement.from.offset
           /\ w.field = VALID_UNTIL => w.offset = statement.until.offset
           /\ w.field = DEVICE_KEY_X_ANCHOR => w.offset = statement.keyX.anchorOffset
           /\ w.field = DEVICE_KEY_Y_ANCHOR => w.offset = statement.keyY.anchorOffset
           /\ w.field = VALID_FROM_ANCHOR => w.offset = statement.from.anchorOffset
           /\ w.field = VALID_UNTIL_ANCHOR => w.offset = statement.until.anchorOffset
           /\ w.field = MSO_PAYLOAD => w.offset = statement.payload.offset
<1> USE DEF DEVICE_KEY_X, DEVICE_KEY_Y, VALID_FROM, VALID_UNTIL, DEVICE_KEY_X_ANCHOR,
            DEVICE_KEY_Y_ANCHOR, VALID_FROM_ANCHOR, VALID_UNTIL_ANCHOR, MSO_PAYLOAD,
            DigestField, DigestAnchorField, Value, Anchor, Window
<1>1. \A i \in Attributes : i \in 1 .. 4
  BY DEF AttributesShape, MAX_DISCLOSED_ATTRIBUTES
<1>2. w \in IssuerMsoExposure
  BY DEF Exposure, Issuer
<1>3. CASE w \in {Value(DigestField(i), statement.attributes[i].digest, DigestLen) :
                    i \in Attributes}
  BY <1>1, <1>3
<1>4. CASE w \in {Anchor(DigestAnchorField(i), statement.attributes[i].digest) :
                    i \in Attributes}
  BY SMTT(40), <1>1, <1>4
<1>5. CASE w \in {Value(DEVICE_KEY_X, statement.keyX, DigestLen),
                  Value(DEVICE_KEY_Y, statement.keyY, DigestLen),
                  Value(VALID_FROM, statement.from, TextLen),
                  Value(VALID_UNTIL, statement.until, TextLen),
                  Anchor(DEVICE_KEY_X_ANCHOR, statement.keyX),
                  Anchor(DEVICE_KEY_Y_ANCHOR, statement.keyY),
                  Anchor(VALID_FROM_ANCHOR, statement.from),
                  Anchor(VALID_UNTIL_ANCHOR, statement.until)}
  BY SMTT(40), <1>1, <1>5
<1>6. CASE w = Value(MSO_PAYLOAD, statement.payload, statement.payload.len)
  BY <1>1, <1>6
<1> QED BY <1>2, <1>3, <1>4, <1>5, <1>6 DEF IssuerMsoExposure

LEMMA ItemWindows ==
    ASSUME AttributesShape, NEW i \in Attributes, NEW w \in Exposure(Item(i))
    PROVE  LET a == statement.attributes[i] IN
           /\ w.field = ElementField(i) => w.offset = a.name.offset
           /\ w.field = ElementAnchorField(i) => w.offset = a.name.anchorOffset
           /\ w.field \in {DOB, NATIONALITY, ValueField(i), ValueHeadField(i)}
                  => w.offset = a.valueOffset
<1> USE DEF DOB, NATIONALITY, ElementField, ElementAnchorField, ValueField, ValueHeadField,
            Value, Anchor, Window
<1>1. i \in 1 .. 4
  BY DEF AttributesShape, MAX_DISCLOSED_ATTRIBUTES
<1>2. w \in AttributeExposure(i)
  BY DEF Exposure, Item
<1>3. statement.attributes[i].mode \in {"age", "alpha2", "equality"}
  BY DEF AttributesShape, AttributeShape
<1> QED BY <1>1, <1>2, <1>3 DEF AttributeExposure

(* The other sources expose one window each.                                  *)
LEMMA MsoWindow ==
    ASSUME NEW w \in Exposure(Mso)
    PROVE  w.offset = 0
<1>1. w = Window(MSO_PAYLOAD, 0, statement.payload.len)
  BY DEF Exposure, Mso
<1> QED BY <1>1 DEF Window

LEMMA RevocationWindow ==
    ASSUME NEW w \in Exposure(RevocationMessage)
    PROVE  w.offset = 0
<1>1. w = Window(REVOCATION_MESSAGE, 0, RevocationMessageLen)
  BY DEF Exposure, RevocationMessage
<1> QED BY <1>1 DEF Window

-----------------------------------------------------------------------------
(* Finitely many requirements.                                                *)

LEMMA AttributesFinite ==
    ASSUME AttributesShape
    PROVE  IsFiniteSet(Attributes)
<1>1. PICK n \in 1 .. MAX_DISCLOSED_ATTRIBUTES : Attributes = 1 .. n
  BY DEF AttributesShape
<1> QED BY <1>1, FS_Interval DEF MAX_DISCLOSED_ATTRIBUTES

LEMMA UpToFour ==
    ASSUME NEW a, NEW b, NEW c, NEW d
    PROVE  /\ IsFiniteSet({}) /\ IsFiniteSet({a}) /\ IsFiniteSet({a, b})
           /\ IsFiniteSet({a, b, c, d})
<1>1. IsFiniteSet({a}) /\ IsFiniteSet({b}) /\ IsFiniteSet({c}) /\ IsFiniteSet({d})
  BY FS_Singleton
<1>2. IsFiniteSet({a} \cup {b})
  BY <1>1, FS_Union
<1>3. IsFiniteSet(({a} \cup {b}) \cup {c})
  BY <1>1, <1>2, FS_Union
<1>4. IsFiniteSet((({a} \cup {b}) \cup {c}) \cup {d})
  BY <1>1, <1>3, FS_Union
<1>5. {a, b} = {a} \cup {b} /\ {a, b, c, d} = (({a} \cup {b}) \cup {c}) \cup {d}
  OBVIOUS
<1> QED BY <1>1, <1>2, <1>4, <1>5, FS_EmptySet

LEMMA AttributeRowsFinite ==
    ASSUME NEW i
    PROVE  IsFiniteSet(AttributeRows(i))
<1> DEFINE a == statement.attributes[i]
           always == {Use("window_bind", Item(i), ElementField(i), a.element),
                      Use("window_bind", Item(i), ElementAnchorField(i), a.name.anchor),
                      Use("window_bind", Issuer, DigestField(i), rows.digests[i]),
                      Use("window_bind", Issuer, DigestAnchorField(i), a.digest.anchor)}
           equal == {Use("window_bind", Item(i), ValueField(i), a.value),
                     Use("window_bind", Item(i), ValueHeadField(i), a.head)}
<1>1. IsFiniteSet(always)
  BY UpToFour
<1>2. IsFiniteSet(IF a.mode = "equality" THEN equal ELSE {})
  BY UpToFour
<1>3. AttributeRows(i) = always \cup (IF a.mode = "equality" THEN equal ELSE {})
  BY DEF AttributeRows
<1> HIDE DEF a, always, equal
<1> QED BY <1>1, <1>2, <1>3, FS_Union

LEMMA WindowBindUsesFinite ==
    ASSUME AttributesShape
    PROVE  IsFiniteSet(WindowBindUses)
<1> DEFINE f == [i \in Attributes |-> AttributeRows(i)]
           anchors == {Use("window_bind", Issuer, DEVICE_KEY_X_ANCHOR, statement.keyX.anchor),
                       Use("window_bind", Issuer, DEVICE_KEY_Y_ANCHOR, statement.keyY.anchor),
                       Use("window_bind", Issuer, VALID_FROM_ANCHOR, statement.from.anchor),
                       Use("window_bind", Issuer, VALID_UNTIL_ANCHOR, statement.until.anchor)}
           keys == IF statement.build = "legacy"
                   THEN {Use("window_bind", Issuer, DEVICE_KEY_X, statement.deviceKey[1]),
                         Use("window_bind", Issuer, DEVICE_KEY_Y, statement.deviceKey[2])}
                   ELSE {}
<1>1. IsFiniteSet({f[i] : i \in Attributes})
  <2> HIDE DEF f
  <2> QED BY AttributesFinite, FiniteImage
<1>2. \A T \in {f[i] : i \in Attributes} : IsFiniteSet(T)
  BY AttributeRowsFinite
<1>3. IsFiniteSet(UNION {f[i] : i \in Attributes})
  <2> HIDE DEF f
  <2> QED BY <1>1, <1>2, FS_UNION
<1>4. UNION {f[i] : i \in Attributes} = UNION {AttributeRows(i) : i \in Attributes}
  OBVIOUS
<1>5. IsFiniteSet(anchors) /\ IsFiniteSet(keys)
  BY UpToFour
<1>6. WindowBindUses = ((UNION {AttributeRows(i) : i \in Attributes}) \cup anchors) \cup keys
  BY DEF WindowBindUses
<1> HIDE DEF f, anchors, keys
<1>7. IsFiniteSet((UNION {AttributeRows(i) : i \in Attributes}) \cup anchors)
  BY <1>3, <1>4, <1>5, FS_Union
<1> QED BY <1>5, <1>6, <1>7, FS_Union

LEMMA PredicateUsesFinite ==
    ASSUME AttributesShape
    PROVE  IsFiniteSet(PredicateUses)
<1> DEFINE A == {i \in Attributes : statement.attributes[i].mode = "age"}
           N == {i \in Attributes : statement.attributes[i].mode = "alpha2"}
           f == [i \in A |-> Use("age", Item(i), DOB, rows.birth)]
           g == [i \in N |-> Use("nationality", Item(i), NATIONALITY, rows.country)]
<1>1. IsFiniteSet(A) /\ IsFiniteSet(N)
  BY AttributesFinite, FS_Subset
<1>2. IsFiniteSet({f[i] : i \in A}) /\ IsFiniteSet({g[i] : i \in N})
  <2> HIDE DEF A, N, f, g
  <2> QED BY <1>1, FiniteImage
<1>3. PredicateUses = {f[i] : i \in A} \cup {g[i] : i \in N}
  BY DEF PredicateUses
<1> HIDE DEF A, N, f, g
<1> QED BY <1>2, <1>3, FS_Union

LEMMA FieldUsesFinite ==
    ASSUME AttributesShape
    PROVE  IsFiniteSet(FieldUses)
<1>1. IsFiniteSet(ValidityUses)
  BY UpToFour DEF ValidityUses
<1>2. IsFiniteSet(MacUses)
  BY UpToFour DEF MacUses
<1>3. IsFiniteSet(PayloadUses)
  BY UpToFour DEF PayloadUses
<1>4. IsFiniteSet(RangeUses)
  BY UpToFour DEF RangeUses
<1>5. IsFiniteSet(WindowBindUses \cup ValidityUses)
  BY <1>1, WindowBindUsesFinite, FS_Union
<1>6. IsFiniteSet(WindowBindUses \cup ValidityUses \cup MacUses)
  BY <1>2, <1>5, FS_Union
<1>7. IsFiniteSet(WindowBindUses \cup ValidityUses \cup MacUses \cup PayloadUses)
  BY <1>3, <1>6, FS_Union
<1>8. IsFiniteSet(WindowBindUses \cup ValidityUses \cup MacUses \cup PayloadUses \cup RangeUses)
  BY <1>4, <1>7, FS_Union
<1> QED BY <1>8, PredicateUsesFinite, FS_Union DEF FieldUses

LEMMA DigestUsesFinite ==
    ASSUME AttributesShape
    PROVE  IsFiniteSet(DigestUses)
<1> DEFINE f == [i \in Attributes |-> DigestUse("window_bind", Item(i), rows.digests[i])]
           items == {f[i] : i \in Attributes}
           device == {DigestUse("digest_bind", Device, statement.deviceHash)}
           issuer == IF statement.build = "legacy"
                     THEN {DigestUse("digest_bind", Issuer, statement.issuerHash)}
                     ELSE {DigestUse("mac", Issuer, rows.mac[1])}
           range == IF HasRange THEN {DigestUse("revocation_range", Mso, rows.range.digest)}
                    ELSE {}
           signed == IF HasSignature
                     THEN {DigestUse("digest_bind", RevocationMessage, statement.revocationHash)}
                     ELSE {}
<1>1. IsFiniteSet(items)
  <2> HIDE DEF f
  <2> QED BY AttributesFinite, FiniteImage
<1>2. IsFiniteSet(device) /\ IsFiniteSet(issuer) /\ IsFiniteSet(range) /\ IsFiniteSet(signed)
  BY UpToFour
<1>3. DigestUses = items \cup device \cup issuer \cup range \cup signed
  BY DEF DigestUses
<1> HIDE DEF items, device, issuer, range, signed
<1>4. IsFiniteSet(items \cup device) 
  BY <1>1, <1>2, FS_Union
<1>5. IsFiniteSet(items \cup device \cup issuer)
  BY <1>2, <1>4, FS_Union
<1>6. IsFiniteSet(items \cup device \cup issuer \cup range)
  BY <1>2, <1>5, FS_Union
<1> QED BY <1>2, <1>3, <1>6, FS_Union

-----------------------------------------------------------------------------
(* What every written row satisfies when the proof is accepted.               *)

DigestRows == \A i \in Attributes : IsText(rows.digests[i])
ValidityRows ==
    /\ IsText(rows.from)  /\ Len(rows.from) = TextLen
    /\ IsText(rows.until) /\ Len(rows.until) = TextLen
    /\ ValidFromRow(rows.from, statement.policy.date)
    /\ ValidUntilRow(rows.until, statement.policy.date)
PayloadRows ==
    HasRange => IsText(rows.payload) /\ Len(rows.payload) = statement.payload.len
RangeRows ==
    HasRange => /\ rows.range.lo \in Seq(Int) /\ rows.range.hi \in Seq(Int)
                /\ Between(rows.range.lo, rows.range.digest, rows.range.hi)
BirthRows ==
    \A i \in AttributesOf("age") :
        IsText(rows.birth) /\ Len(rows.birth) = ValueLen(i) /\ BirthRow(rows.birth)
CountryRows ==
    \A i \in AttributesOf("alpha2") :
        IsText(rows.country) /\ Len(rows.country) = ValueLen(i) /\ CountryRow(rows.country)
MacRows ==
    statement.build = "coprocessor" =>
        IsText(rows.mac[2]) /\ IsText(rows.mac[3])

AllRows ==
    /\ DigestRows /\ ValidityRows /\ PayloadRows /\ RangeRows
    /\ BirthRows /\ CountryRows /\ MacRows

LEMMA UsesAreText ==
    ASSUME StatementShape, AllRows
    PROVE  \A u \in FieldUses : IsText(u.cells)
<1>1. \A i \in Attributes : \A u \in AttributeRows(i) : IsText(u.cells)
  BY DEF StatementShape, AttributesShape, AttributeShape, LocatedText, AllRows, DigestRows,
         AttributeRows, Use
<1>2. \A u \in WindowBindUses : IsText(u.cells)
  BY <1>1 DEF StatementShape, LocatedText, WindowBindUses, Use
<1>3. \A u \in ValidityUses : IsText(u.cells)
  BY DEF AllRows, ValidityRows, ValidityUses, Use
<1>4. \A u \in MacUses : IsText(u.cells)
  BY DEF AllRows, MacRows, MacUses, Use
<1>5. \A u \in PayloadUses : IsText(u.cells)
  BY DEF AllRows, PayloadRows, PayloadUses, Use
<1>6. \A u \in RangeUses : IsText(u.cells)
  <2>1. CASE HasSignature
    <3>1. rows.range.lo \in Seq(Int) /\ rows.range.hi \in Seq(Int)
      BY <2>1 DEF AllRows, RangeRows, HasRange, HasSignature
    <3>2. rows.range.lo \o rows.range.hi \o statement.revocation.epoch \in Seq(Int)
      BY <3>1 DEF StatementShape
    <3> DEFINE m == rows.range.lo \o rows.range.hi \o statement.revocation.epoch
    <3>3. RangeUses = {Use("revocation_range", RevocationMessage, REVOCATION_MESSAGE, m)}
      BY <2>1 DEF RangeUses
    <3> HIDE DEF m
    <3>4. \A u \in RangeUses : u.cells = m
      BY <3>3 DEF Use
    <3> QED BY <3>2, <3>4 DEF IsText, m
  <2>2. CASE ~ HasSignature
    BY <2>2 DEF RangeUses
  <2> QED BY <2>1, <2>2
<1>7. \A u \in PredicateUses : IsText(u.cells)
  BY DEF AllRows, BirthRows, CountryRows, PredicateUses, AttributesOf, Use
<1> QED BY <1>2, <1>3, <1>4, <1>5, <1>6, <1>7 DEF FieldUses

LEMMA Reading ==
    ASSUME StatementShape, AllRows, Balanced,
           NEW by, NEW source, NEW field, NEW cells, Use(by, source, field, cells) \in FieldUses,
           NEW o, \A w \in Exposure(source) : w.field = field => w.offset = o
    PROVE  Reads(source, o, cells)
<1> DEFINE u == Use(by, source, field, cells)
<1>1. u.source = source /\ u.field = field /\ u.cells = cells
  BY DEF Use
<1>2. IsFiniteSet(UseSites)
  BY UsesAreText, FieldUsesFinite, UseSitesFinite DEF StatementShape
<1>3. IsText(u.cells)
  BY UsesAreText
<1> HIDE DEF u
<1>4. Bytes(u.source, o, Len(u.cells)) = u.cells
  BY <1>1, <1>2, <1>3, UseReads DEF Balanced, u
<1> QED BY <1>1, <1>4 DEF Reads

LEMMA DigestReading ==
    ASSUME StatementShape, Balanced,
           NEW by, NEW source, NEW digest, DigestUse(by, source, digest) \in DigestUses
    PROVE  Hash(preimages[source]) = digest
<1>1. IsFiniteSet(DigestUses)
  BY DigestUsesFinite DEF StatementShape
<1>2. DigestUse(by, source, digest).source = source /\ DigestUse(by, source, digest).digest = digest
  BY DEF DigestUse
<1> QED BY <1>1, <1>2, DigestIsHash DEF Balanced

LEMMA ReadText ==
    ASSUME NEW s, NEW o, NEW x, Reads(s, o, x)
    PROVE  Bytes(s, o, Len(x)) = x
BY DEF Reads

LEMMA ReadBytes ==
    ASSUME NEW s, NEW o, NEW n \in Nat
    PROVE  Reads(s, o, Bytes(s, o, n))
BY BytesIsText DEF Reads

-----------------------------------------------------------------------------
(* The properties, for rows and relations that the verifier accepts.          *)

LEMMA BalancedItems ==
    ASSUME StatementShape, AllRows, Balanced, NEW i \in Attributes
    PROVE  LET a == statement.attributes[i] IN
           /\ ReadsLocated(Issuer, a.digest, Hash(preimages[Item(i)]))
           /\ ReadsLocated(Item(i), a.name, a.element)
           /\ a.mode = "equality" => /\ Reads(Item(i), a.valueOffset, a.value)
                                     /\ Reads(Item(i), a.valueOffset, a.head)
<1> DEFINE a == statement.attributes[i]
<1>1. /\ Use("window_bind", Item(i), ElementField(i), a.element) \in FieldUses
      /\ Use("window_bind", Item(i), ElementAnchorField(i), a.name.anchor) \in FieldUses
      /\ Use("window_bind", Issuer, DigestField(i), rows.digests[i]) \in FieldUses
      /\ Use("window_bind", Issuer, DigestAnchorField(i), a.digest.anchor) \in FieldUses
  BY DEF FieldUses, WindowBindUses, AttributeRows
<1>2. a.mode = "equality" =>
        /\ Use("window_bind", Item(i), ValueField(i), a.value) \in FieldUses
        /\ Use("window_bind", Item(i), ValueHeadField(i), a.head) \in FieldUses
  BY DEF FieldUses, WindowBindUses, AttributeRows
<1>3. Reads(Item(i), a.name.offset, a.element) /\ Reads(Item(i), a.name.anchorOffset, a.name.anchor)
  BY <1>1, ItemWindows, Reading DEF StatementShape
<1>4. /\ Reads(Issuer, a.digest.offset, rows.digests[i])
      /\ Reads(Issuer, a.digest.anchorOffset, a.digest.anchor)
  BY <1>1, IssuerWindows, Reading DEF StatementShape
<1>5. a.mode = "equality" => /\ Reads(Item(i), a.valueOffset, a.value)
                             /\ Reads(Item(i), a.valueOffset, a.head)
  BY <1>2, ItemWindows, Reading DEF StatementShape
<1>6. Hash(preimages[Item(i)]) = rows.digests[i]
  <2>1. DigestUse("window_bind", Item(i), rows.digests[i]) \in DigestUses
    BY DEF DigestUses
  <2> QED BY <2>1, DigestReading
<1> QED BY <1>3, <1>4, <1>5, <1>6 DEF ReadsLocated

LEMMA BalancedPredicates ==
    ASSUME StatementShape, AllRows, Balanced
    PROVE  /\ \A i \in AttributesOf("age") :
                 BirthRow(Bytes(Item(i), statement.attributes[i].valueOffset, ValueLen(i)))
           /\ \A i \in AttributesOf("alpha2") :
                 CountryRow(Bytes(Item(i), statement.attributes[i].valueOffset, ValueLen(i)))
<1>1. ASSUME NEW i \in AttributesOf("age")
      PROVE  BirthRow(Bytes(Item(i), statement.attributes[i].valueOffset, ValueLen(i)))
  <2>1. Use("age", Item(i), DOB, rows.birth) \in FieldUses
    BY <1>1 DEF FieldUses, PredicateUses, AttributesOf
  <2>2. Reads(Item(i), statement.attributes[i].valueOffset, rows.birth)
    BY <1>1, <2>1, ItemWindows, Reading DEF StatementShape, AttributesOf
  <2> QED BY <1>1, <2>2 DEF Reads, AllRows, BirthRows
<1>2. ASSUME NEW i \in AttributesOf("alpha2")
      PROVE  CountryRow(Bytes(Item(i), statement.attributes[i].valueOffset, ValueLen(i)))
  <2>1. Use("nationality", Item(i), NATIONALITY, rows.country) \in FieldUses
    BY <1>2 DEF FieldUses, PredicateUses, AttributesOf
  <2>2. Reads(Item(i), statement.attributes[i].valueOffset, rows.country)
    BY <1>2, <2>1, ItemWindows, Reading DEF StatementShape, AttributesOf
  <2> QED BY <1>2, <2>2 DEF Reads, AllRows, CountryRows
<1> QED BY <1>1, <1>2

MaxKey == 6000000

(* The keys of two dates of this form are ordered as the dates are.           *)
LEMMA KeyOrder ==
    ASSUME NEW y \in Int, NEW m \in 1 .. 12, NEW d \in 1 .. 31,
           NEW y2 \in Int, NEW m2 \in 1 .. 12, NEW d2 \in 1 .. 31,
           DateKey(y, m, d) <= DateKey(y2, m2, d2)
    PROVE  NotLater(<<y, m, d>>, <<y2, m2, d2>>)
BY SMT DEF DateKey, NotLater

LEMMA Limits ==
    /\ MaxKey \in Int /\ MaxKey <= 6000000 /\ 6000000 <= MaxKey
    /\ MaxPolicyYear \in Int /\ MaxPolicyYear <= 9999 /\ 9999 <= MaxPolicyYear
BY SMT DEF MaxKey, MaxPolicyYear

LEMMA SignedFits ==
    ASSUME NEW v \in Int, v <= 6000000, 0 - 6000000 <= v, FitsBits(v, 8388608)
    PROVE  v >= 0
<1> SUFFICES ASSUME v < 0 PROVE FALSE
  OBVIOUS
<1>1. v % P = v + P
  BY SMT DEF P
<1> QED BY <1>1, SMT DEF FitsBits, P

LEMMA FittingDifference ==
    ASSUME NEW k \in 0 .. MaxKey, NEW l \in 0 .. MaxKey, FitsBits(k - l, 8388608)
    PROVE  l <= k
<1>1. k \in Int /\ 0 <= k /\ k <= MaxKey /\ l \in Int /\ 0 <= l /\ l <= MaxKey
  BY Limits, SMT
<1>2. k - l \in Int /\ k - l <= 6000000 /\ 0 - 6000000 <= k - l
  BY <1>1, Limits, SMT
<1>3. k - l >= 0
  BY <1>2, SignedFits, SMT
<1> QED BY <1>1, <1>3, SMT

LEMMA SmallFits ==
    ASSUME NEW v \in Int, v <= 99, 0 - 99 <= v, NEW b \in Nat, b <= 99, FitsBits(v, b)
    PROVE  v >= 0
<1> SUFFICES ASSUME v < 0 PROVE FALSE
  OBVIOUS
<1>1. v % P = v + P
  BY SMT DEF P
<1> QED BY <1>1, SMT DEF FitsBits, P

LEMMA DateTextRange ==
    ASSUME NEW t, IsDateText(t), DateInRange(t)
    PROVE  Year(t) \in 0 .. MaxPolicyYear /\ Month(t) \in 1 .. 12 /\ Day(t) \in 1 .. 31
<1>1. /\ Digit(t, 1) \in 0 .. 9 /\ Digit(t, 2) \in 0 .. 9
      /\ Digit(t, 3) \in 0 .. 9 /\ Digit(t, 4) \in 0 .. 9
      /\ Digit(t, 6) \in 0 .. 9 /\ Digit(t, 7) \in 0 .. 9
      /\ Digit(t, 9) \in 0 .. 9 /\ Digit(t, 10) \in 0 .. 9
  BY DEF IsDateText, Digit, DigitPositions
<1>2. Month(t) \in 0 .. 99 /\ Day(t) \in 0 .. 99
  BY <1>1 DEF Month, Day
<1>4. Year(t) \in 0 .. MaxPolicyYear
  <2>1. ASSUME NEW a \in 0 .. 9, NEW b \in 0 .. 9, NEW c \in 0 .. 9, NEW d \in 0 .. 9
        PROVE  1000 * a + 100 * b + 10 * c + d \in 0 .. MaxPolicyYear
    BY Limits, SMT
  <2> DEFINE a == Digit(t, 1)
             b == Digit(t, 2)
             c == Digit(t, 3)
             d == Digit(t, 4)
  <2>2. a \in 0 .. 9 /\ b \in 0 .. 9 /\ c \in 0 .. 9 /\ d \in 0 .. 9
    BY <1>1
  <2>3. Year(t) = 1000 * a + 100 * b + 10 * c + d
    BY Zenon DEF Year
  <2> HIDE DEF a, b, c, d
  <2> QED BY <2>1, <2>2, <2>3
<1>3. Month(t) - 1 >= 0 /\ 12 - Month(t) >= 0 /\ Day(t) - 1 >= 0 /\ 31 - Day(t) >= 0
  BY <1>2, SmallFits DEF DateInRange
<1> QED BY <1>2, <1>3, <1>4

LEMMA KeyRange ==
    ASSUME NEW y \in 0 .. MaxPolicyYear, NEW m \in 1 .. 12, NEW d \in 1 .. 31
    PROVE  DateKey(y, m, d) \in 0 .. MaxKey
<1>1. y \in Int /\ 0 <= y /\ y <= 9999
  BY Limits, SMT
<1>2. /\ y * 512 + m * 32 + d \in Int /\ 0 <= y * 512 + m * 32 + d
      /\ y * 512 + m * 32 + d <= 6000000
  BY <1>1, SMT
<1> QED BY <1>2, Limits, SMT DEF DateKey

LEMMA ValidRowsOrdered ==
    ASSUME NEW t, NEW date, date[1] \in 0 .. MaxPolicyYear,
           date[2] \in 1 .. 12, date[3] \in 1 .. 31
    PROVE  /\ ValidFromRow(t, date) => IsDateText(t) /\ NotLater(TextDate(t), date)
           /\ ValidUntilRow(t, date) => IsDateText(t) /\ NotLater(date, TextDate(t))
<1>1. PolicyKey(date) \in 0 .. MaxKey
  BY KeyRange DEF PolicyKey
<1>2. ASSUME IsDateText(t), DateInRange(t)
      PROVE  /\ TextKey(t) \in 0 .. MaxKey
             /\ TextKey(t) <= PolicyKey(date) => NotLater(TextDate(t), date)
             /\ PolicyKey(date) <= TextKey(t) => NotLater(date, TextDate(t))
  <2>1. Year(t) \in 0 .. MaxPolicyYear /\ Month(t) \in 1 .. 12 /\ Day(t) \in 1 .. 31
    BY <1>2, DateTextRange
  <2>2. TextKey(t) \in 0 .. MaxKey
    BY <2>1, KeyRange DEF TextKey
  <2>3. Year(t) \in Int /\ date[1] \in Int
    <3>1. MaxPolicyYear \in Int
      BY SMTT(40) DEF MaxPolicyYear
    <3> QED BY <2>1, <3>1
  <2>4. /\ TextKey(t) <= PolicyKey(date) => NotLater(<<Year(t), Month(t), Day(t)>>,
                                                     <<date[1], date[2], date[3]>>)
        /\ PolicyKey(date) <= TextKey(t) => NotLater(<<date[1], date[2], date[3]>>,
                                                     <<Year(t), Month(t), Day(t)>>)
    <3> DEFINE y == Year(t)  m == Month(t)  d == Day(t)
               y2 == date[1]  m2 == date[2]  d2 == date[3]
    <3>1. /\ y \in Int /\ m \in 1 .. 12 /\ d \in 1 .. 31
          /\ y2 \in Int /\ m2 \in 1 .. 12 /\ d2 \in 1 .. 31
      BY <2>1, <2>3
    <3>2. TextKey(t) = DateKey(y, m, d) /\ PolicyKey(date) = DateKey(y2, m2, d2)
      BY DEF TextKey, PolicyKey
    <3> HIDE DEF y, m, d, y2, m2, d2
    <3>3. DateKey(y, m, d) <= DateKey(y2, m2, d2) => NotLater(<<y, m, d>>, <<y2, m2, d2>>)
      BY <3>1, KeyOrder
    <3>4. DateKey(y2, m2, d2) <= DateKey(y, m, d) => NotLater(<<y2, m2, d2>>, <<y, m, d>>)
      BY <3>1, KeyOrder
    <3> QED BY <3>2, <3>3, <3>4 DEF y, m, d, y2, m2, d2
  <2> QED BY <2>2, <2>4 DEF TextDate, NotLater
<1>3. ASSUME ValidFromRow(t, date) PROVE IsDateText(t) /\ NotLater(TextDate(t), date)
  <2>1. IsDateText(t) /\ DateInRange(t) /\ FitsBits(PolicyKey(date) - TextKey(t), 8388608)
    BY <1>3 DEF ValidFromRow
  <2> QED BY <1>1, <1>2, <2>1, FittingDifference
<1>4. ASSUME ValidUntilRow(t, date) PROVE IsDateText(t) /\ NotLater(date, TextDate(t))
  <2>1. IsDateText(t) /\ DateInRange(t) /\ FitsBits(TextKey(t) - PolicyKey(date), 8388608)
    BY <1>4 DEF ValidUntilRow
  <2> QED BY <1>1, <1>2, <2>1, FittingDifference
<1> QED BY <1>3, <1>4

PolicyShape ==
    LET d == statement.policy.date IN
    d[1] \in 0 .. MaxPolicyYear /\ d[2] \in 1 .. 12 /\ d[3] \in 1 .. 31

LEMMA BalancedDates ==
    ASSUME StatementShape, PolicyShape, AllRows, Balanced
    PROVE  LET from  == Bytes(Issuer, statement.from.offset, TextLen)
               until == Bytes(Issuer, statement.until.offset, TextLen)
           IN  /\ ReadsLocated(Issuer, statement.from, from)
               /\ ReadsLocated(Issuer, statement.until, until)
               /\ IsDateText(from) /\ NotLater(TextDate(from), statement.policy.date)
               /\ IsDateText(until) /\ NotLater(statement.policy.date, TextDate(until))
<1> DEFINE from  == Bytes(Issuer, statement.from.offset, TextLen)
           until == Bytes(Issuer, statement.until.offset, TextLen)
<1>1. /\ Use("validity", Issuer, VALID_FROM, rows.from) \in FieldUses
      /\ Use("validity", Issuer, VALID_UNTIL, rows.until) \in FieldUses
      /\ Use("window_bind", Issuer, VALID_FROM_ANCHOR, statement.from.anchor) \in FieldUses
      /\ Use("window_bind", Issuer, VALID_UNTIL_ANCHOR, statement.until.anchor) \in FieldUses
  BY DEF FieldUses, ValidityUses, WindowBindUses
<1>2. /\ Reads(Issuer, statement.from.offset, rows.from)
      /\ Reads(Issuer, statement.until.offset, rows.until)
      /\ Reads(Issuer, statement.from.anchorOffset, statement.from.anchor)
      /\ Reads(Issuer, statement.until.anchorOffset, statement.until.anchor)
  BY <1>1, IssuerWindows, Reading DEF StatementShape
<1>3. from = rows.from /\ until = rows.until
  BY <1>2 DEF Reads, AllRows, ValidityRows
<1>4. /\ IsDateText(rows.from) /\ NotLater(TextDate(rows.from), statement.policy.date)
      /\ IsDateText(rows.until) /\ NotLater(statement.policy.date, TextDate(rows.until))
  BY ValidRowsOrdered DEF AllRows, ValidityRows, PolicyShape
<1> QED BY <1>2, <1>3, <1>4 DEF ReadsLocated

LEMMA BalancedKey ==
    ASSUME StatementShape, statement.build \in {"legacy", "coprocessor"}, AllRows, Balanced
    PROVE  /\ ProvenIssuerHash = Hash(preimages[Issuer])
           /\ statement.deviceHash = Hash(preimages[Device])
           /\ ReadsLocated(Issuer, statement.keyX, ProvenDeviceKey[1])
           /\ ReadsLocated(Issuer, statement.keyY, ProvenDeviceKey[2])
<1>1. DigestUse("digest_bind", Device, statement.deviceHash) \in DigestUses
  BY DEF DigestUses
<1>2. statement.deviceHash = Hash(preimages[Device])
  BY <1>1, DigestReading
<1>3. ProvenIssuerHash = Hash(preimages[Issuer])
  <2>1. CASE statement.build = "legacy"
    <3>1. DigestUse("digest_bind", Issuer, statement.issuerHash) \in DigestUses
      BY <2>1 DEF DigestUses
    <3> QED BY <2>1, <3>1, DigestReading DEF ProvenIssuerHash
  <2>2. CASE statement.build = "coprocessor"
    <3>1. DigestUse("mac", Issuer, rows.mac[1]) \in DigestUses
      BY <2>2 DEF DigestUses
    <3> QED BY <2>2, <3>1, DigestReading DEF ProvenIssuerHash
  <2> QED BY <2>1, <2>2
<1>4. /\ Use("window_bind", Issuer, DEVICE_KEY_X_ANCHOR, statement.keyX.anchor) \in FieldUses
      /\ Use("window_bind", Issuer, DEVICE_KEY_Y_ANCHOR, statement.keyY.anchor) \in FieldUses
  BY DEF FieldUses, WindowBindUses
<1>5. /\ Reads(Issuer, statement.keyX.anchorOffset, statement.keyX.anchor)
      /\ Reads(Issuer, statement.keyY.anchorOffset, statement.keyY.anchor)
  BY <1>4, IssuerWindows, Reading DEF StatementShape
<1>6. /\ Reads(Issuer, statement.keyX.offset, ProvenDeviceKey[1])
      /\ Reads(Issuer, statement.keyY.offset, ProvenDeviceKey[2])
  <2>1. CASE statement.build = "legacy"
    <3>1. /\ Use("window_bind", Issuer, DEVICE_KEY_X, statement.deviceKey[1]) \in FieldUses
          /\ Use("window_bind", Issuer, DEVICE_KEY_Y, statement.deviceKey[2]) \in FieldUses
      BY <2>1 DEF FieldUses, WindowBindUses
    <3>2. /\ Reads(Issuer, statement.keyX.offset, statement.deviceKey[1])
          /\ Reads(Issuer, statement.keyY.offset, statement.deviceKey[2])
      BY <3>1, IssuerWindows, Reading DEF StatementShape
    <3> QED BY <2>1, <3>2 DEF ProvenDeviceKey
  <2>2. CASE statement.build = "coprocessor"
    <3>1. /\ Use("mac", Issuer, DEVICE_KEY_X, rows.mac[2]) \in FieldUses
          /\ Use("mac", Issuer, DEVICE_KEY_Y, rows.mac[3]) \in FieldUses
      BY <2>2 DEF FieldUses, MacUses
    <3>2. /\ Reads(Issuer, statement.keyX.offset, rows.mac[2])
          /\ Reads(Issuer, statement.keyY.offset, rows.mac[3])
      BY <3>1, IssuerWindows, Reading DEF StatementShape
    <3> QED BY <2>2, <3>2 DEF ProvenDeviceKey
  <2> QED BY <2>1, <2>2
<1> QED BY <1>2, <1>3, <1>5, <1>6 DEF ReadsLocated

-----------------------------------------------------------------------------
(* The byte chains of the revocation range compare numbers.                   *)

NatLess == {ss \in Nat \X Nat : ss[1] < ss[2]}

(* A nonempty set of naturals has a least element.                            *)
LEMMA LeastElement ==
    ASSUME NEW S \in SUBSET Nat, S # {}
    PROVE  \E x \in S : \A y \in S : ~(y < x)
<1>1. IsWellFoundedOn(NatLess, Nat)
  BY NatLessThanWellFounded DEF OpToRel, NatLess
<1>2. PICK x \in S : \A y \in S : ~(<<y, x>> \in NatLess)
  BY <1>1, WFMin
<1> QED BY <1>2 DEF NatLess

(* The number of the n highest bytes, for every n.                            *)
IsHorner(v, b, m) ==
    v = [n \in 0 .. m |-> IF n = 0 THEN 0 ELSE 256 * v[n - 1] + b[Len(b) - n + 1]]

LEMMA HornerExists ==
    ASSUME NEW b, NEW m \in Nat
    PROVE  \E v : IsHorner(v, b, m)
<1> DEFINE S == {n \in Nat : ~(\E v : IsHorner(v, b, n))}
<1>1. CASE S # {}
  <2>1. PICK x \in S : \A y \in S : ~(y < x)
    BY <1>1, LeastElement
  <2>2. x # 0
    <3> DEFINE v == [n \in 0 .. 0 |-> 0]
    <3>1. \A n \in 0 .. 0 : n = 0
      OBVIOUS
    <3>2. v = [n \in 0 .. 0 |-> IF n = 0 THEN 0 ELSE 256 * v[n - 1] + b[Len(b) - n + 1]]
      BY <3>1
    <3>3. IsHorner(v, b, 0)
      BY <3>2 DEF IsHorner
    <3> QED BY <3>3
  <2>3. PICK v : IsHorner(v, b, x - 1)
    BY <2>1, <2>2
  <2> DEFINE w == [n \in 0 .. x |->
                     IF n = x THEN 256 * v[x - 1] + b[Len(b) - x + 1] ELSE v[n]]
  <2>4. ASSUME NEW n \in 0 .. x
        PROVE  w[n] = IF n = 0 THEN 0 ELSE 256 * w[n - 1] + b[Len(b) - n + 1]
    <3>1. CASE n = x
      BY <2>1, <2>2, <3>1
    <3>2. CASE n # x
      <4>1. n \in 0 .. x - 1
        BY <2>1, <3>2
      <4>2. v[n] = IF n = 0 THEN 0 ELSE 256 * v[n - 1] + b[Len(b) - n + 1]
        BY <2>3, <4>1 DEF IsHorner
      <4>3. n # 0 => n - 1 \in 0 .. x /\ n - 1 # x
        BY <2>1, <4>1
      <4> QED BY <3>2, <4>2, <4>3
    <3> QED BY <3>1, <3>2
  <2>5. w = [n \in 0 .. x |-> IF n = 0 THEN 0 ELSE 256 * w[n - 1] + b[Len(b) - n + 1]]
    BY <2>4
  <2>6. IsHorner(w, b, x)
    BY <2>5 DEF IsHorner
  <2> QED BY <2>1, <2>6
<1>2. QED
  BY <1>1

LEMMA NumberIsHorner ==
    ASSUME NEW b, Len(b) = IdLen
    PROVE  \E v : IsHorner(v, b, IdLen) /\ NumberLE(b) = v[IdLen]
<1>1. \E v : IsHorner(v, b, IdLen)
  BY HornerExists, LengthsAssumption
<1> DEFINE v == CHOOSE v : IsHorner(v, b, IdLen)
<1>2. IsHorner(v, b, IdLen)
  BY <1>1
<1>3. NumberLE(b) = v[IdLen]
  BY DEF NumberLE, IsHorner
<1> QED BY <1>2, <1>3

(* What the bytes and the numbers of two ids have to do with each other.      *)
Ids(a, b, v, w) ==
    /\ Len(a) = IdLen /\ Len(b) = IdLen
    /\ \A j \in 1 .. IdLen : a[j] \in Byte /\ b[j] \in Byte
    /\ IsHorner(v, a, IdLen) /\ IsHorner(w, b, IdLen)

LEMMA HornerSteps ==
    ASSUME NEW a, NEW b, NEW v, NEW w, Ids(a, b, v, w)
    PROVE  /\ v[0] = 0 /\ w[0] = 0
           /\ \A n \in 1 .. IdLen : /\ v[n] = 256 * v[n - 1] + a[IdLen - n + 1]
                                    /\ w[n] = 256 * w[n - 1] + b[IdLen - n + 1]
           /\ \A n \in 0 .. IdLen : v[n] \in Int /\ w[n] \in Int
<1>0. IdLen \in Nat /\ IdLen >= 1
  BY LengthsAssumption
<1>b. \A j \in 1 .. IdLen : a[j] \in Byte /\ b[j] \in Byte
  BY DEF Ids
<1>1. v[0] = 0 /\ w[0] = 0
  BY <1>0 DEF Ids, IsHorner
<1>2. ASSUME NEW n \in 1 .. IdLen
      PROVE  /\ v[n] = 256 * v[n - 1] + a[IdLen - n + 1]
             /\ w[n] = 256 * w[n - 1] + b[IdLen - n + 1]
  BY <1>0 DEF Ids, IsHorner
<1> DEFINE S == {n \in 0 .. IdLen : ~(v[n] \in Int /\ w[n] \in Int)}
<1>3. S = {}
  <2> SUFFICES ASSUME S # {} PROVE FALSE
    OBVIOUS
  <2>1. S \in SUBSET Nat
    BY <1>0
  <2>2. PICK x \in S : \A y \in S : ~(y < x)
    BY <2>1, LeastElement
  <2>3. x \in 1 .. IdLen
    BY <1>0, <1>1, <2>2
  <2>4. v[x - 1] \in Int /\ w[x - 1] \in Int
    BY <1>0, <2>2, <2>3
  <2>5. a[IdLen - x + 1] \in Int /\ b[IdLen - x + 1] \in Int
    <3>1. IdLen - x + 1 \in 1 .. IdLen
      BY <1>0, <2>3
    <3>2. a[IdLen - x + 1] \in Byte /\ b[IdLen - x + 1] \in Byte
      BY <1>b, <3>1
    <3>3. Byte \subseteq Int
      BY DEF Byte
    <3> QED BY <3>2, <3>3
  <2>6. v[x] \in Int /\ w[x] \in Int
    BY <1>2, <2>3, <2>4, <2>5
  <2> QED BY <2>2, <2>6
<1> QED BY <1>1, <1>2, <1>3

(* From the highest byte down, the carry that is still due keeps the first    *)
(* number at or below the second.                                             *)
LEMMA ChainOrders ==
    ASSUME NEW a, NEW b, NEW v, NEW w, Ids(a, b, v, w), ByteChain(a, b)
    PROVE  v[IdLen] < w[IdLen]
<1>0. IdLen \in Nat /\ IdLen >= 1
  BY LengthsAssumption
<1>b. \A j \in 1 .. IdLen : a[j] \in Byte /\ b[j] \in Byte
  BY DEF Ids
<1>1. PICK carry \in [0 .. IdLen -> {0, 1}] :
        /\ carry[0] = 1 /\ carry[IdLen] = 0
        /\ \A j \in 1 .. IdLen : b[j] + 256 * carry[j] - a[j] - carry[j - 1] \in Byte
  BY DEF ByteChain
<1> DEFINE S == {n \in 0 .. IdLen : ~(v[n] + carry[IdLen - n] <= w[n])}
<1>2. S = {}
  <2> SUFFICES ASSUME S # {} PROVE FALSE
    OBVIOUS
  <2>1. S \in SUBSET Nat
    BY <1>0
  <2>2. PICK x \in S : \A y \in S : ~(y < x)
    BY <2>1, LeastElement
  <2>3. x # 0
    BY <1>0, <1>1, <2>2, HornerSteps
  <2>4. x \in 1 .. IdLen /\ x - 1 \in 0 .. IdLen /\ x - 1 < x
    BY <1>0, <2>2, <2>3
  <2> DEFINE j == IdLen - x + 1
             A == v[x - 1]
             B == w[x - 1]
             k == carry[j]
             l == carry[j - 1]
  <2>5. j \in 1 .. IdLen /\ j - 1 \in 0 .. IdLen /\ IdLen - (x - 1) = j /\ IdLen - x = j - 1
    BY <1>0, <2>4
  <2>6. A + k <= B
    BY <2>2, <2>4, <2>5
  <2>7. /\ v[x] = 256 * A + a[j] /\ w[x] = 256 * B + b[j] /\ A \in Int /\ B \in Int
    BY <2>4, HornerSteps
  <2>8. /\ a[j] \in Int /\ b[j] \in Int /\ k \in {0, 1} /\ l \in {0, 1}
        /\ b[j] + 256 * k - a[j] - l >= 0
    <3>1. a[j] \in Byte /\ b[j] \in Byte
      BY <1>b, <2>5
    <3>2. b[j] + 256 * k - a[j] - l \in Byte
      BY <1>1, <2>5
    <3>3. k \in {0, 1} /\ l \in {0, 1}
      BY <2>5
    <3> DEFINE c == a[j]
               d == b[j]
    <3> HIDE DEF k, l, j, c, d
    <3>4. c \in Byte /\ d \in Byte /\ d + 256 * k - c - l \in Byte
      BY <3>1, <3>2 DEF c, d
    <3>5. c \in Int /\ d \in Int /\ d + 256 * k - c - l >= 0
      BY <3>3, <3>4 DEF Byte
    <3> QED BY <3>3, <3>5 DEF c, d
  <2> DEFINE c == a[j]
             d == b[j]
  <2>9. 256 * A + c + l <= 256 * B + d
    <3> HIDE DEF A, B, c, d, k, l, j
    <3> QED BY <2>6, <2>7, <2>8 DEF c, d
  <2>10. v[x] + carry[IdLen - x] <= w[x]
    BY <2>5, <2>7, <2>9
  <2> QED BY <2>2, <2>10
<1>3. v[IdLen] + carry[IdLen - IdLen] <= w[IdLen]
  BY <1>0, <1>2
<1>4. v[IdLen] \in Int /\ w[IdLen] \in Int /\ carry[IdLen - IdLen] = 1
  BY <1>0, <1>1, HornerSteps
<1> QED BY <1>3, <1>4

(* A carry, and a slack byte with it, exist at every byte: the carry is one   *)
(* when the first byte and the carry into it exceed the second.               *)
IsCarries(k, a, b, m) ==
    k = [j \in 0 .. m |-> IF j = 0 THEN 1 ELSE IF a[j] + k[j - 1] > b[j] THEN 1 ELSE 0]

LEMMA CarriesExist ==
    ASSUME NEW a, NEW b, NEW m \in Nat
    PROVE  \E k : IsCarries(k, a, b, m)
<1> DEFINE S == {n \in Nat : ~(\E k : IsCarries(k, a, b, n))}
<1>1. CASE S # {}
  <2>1. PICK x \in S : \A y \in S : ~(y < x)
    BY <1>1, LeastElement
  <2>2. x # 0
    <3> DEFINE k == [j \in 0 .. 0 |-> 1]
    <3>1. \A j \in 0 .. 0 : j = 0
      OBVIOUS
    <3>2. k = [j \in 0 .. 0 |-> IF j = 0 THEN 1 ELSE IF a[j] + k[j - 1] > b[j] THEN 1 ELSE 0]
      BY <3>1
    <3>3. IsCarries(k, a, b, 0)
      BY <3>2 DEF IsCarries
    <3> QED BY <3>3
  <2>3. PICK k : IsCarries(k, a, b, x - 1)
    BY <2>1, <2>2
  <2> DEFINE h == [j \in 0 .. x |->
                     IF j = x THEN IF a[x] + k[x - 1] > b[x] THEN 1 ELSE 0 ELSE k[j]]
  <2>4. ASSUME NEW j \in 0 .. x
        PROVE  h[j] = IF j = 0 THEN 1 ELSE IF a[j] + h[j - 1] > b[j] THEN 1 ELSE 0
    <3>1. CASE j = x
      BY <2>1, <2>2, <3>1
    <3>2. CASE j # x
      <4>1. j \in 0 .. x - 1
        BY <2>1, <3>2
      <4>2. k[j] = IF j = 0 THEN 1 ELSE IF a[j] + k[j - 1] > b[j] THEN 1 ELSE 0
        BY <2>3, <4>1 DEF IsCarries
      <4>3. j # 0 => j - 1 \in 0 .. x /\ j - 1 # x
        BY <2>1, <4>1
      <4> QED BY <3>2, <4>2, <4>3
    <3> QED BY <3>1, <3>2
  <2>5. h = [j \in 0 .. x |-> IF j = 0 THEN 1 ELSE IF a[j] + h[j - 1] > b[j] THEN 1 ELSE 0]
    BY <2>4
  <2>6. IsCarries(h, a, b, x)
    BY <2>5 DEF IsCarries
  <2> QED BY <2>1, <2>6
<1>2. QED
  BY <1>1

FillsChain(carry, a, b) ==
    /\ carry[0] = 1 /\ carry[IdLen] = 0
    /\ \A j \in 1 .. IdLen : b[j] + 256 * carry[j] - a[j] - carry[j - 1] \in Byte

(* For numbers in order the last of these carries is zero: if it were one,    *)
(* from the highest byte down it would keep the first number at the second.   *)
LEMMA ChainExists ==
    ASSUME NEW a, NEW b, NEW v, NEW w, Ids(a, b, v, w), v[IdLen] < w[IdLen]
    PROVE  ByteChain(a, b)
<1>0. IdLen \in Nat /\ IdLen >= 1
  BY LengthsAssumption
<1>b. \A j \in 1 .. IdLen : a[j] \in Byte /\ b[j] \in Byte
  BY DEF Ids
<1>1. PICK k : IsCarries(k, a, b, IdLen)
  BY <1>0, CarriesExist
<1>2. /\ k[0] = 1
      /\ \A j \in 1 .. IdLen : k[j] = IF a[j] + k[j - 1] > b[j] THEN 1 ELSE 0
  BY <1>0, <1>1 DEF IsCarries
<1>3. \A j \in 0 .. IdLen : k[j] \in {0, 1}
  <2> SUFFICES ASSUME NEW j \in 0 .. IdLen PROVE k[j] \in {0, 1}
    OBVIOUS
  <2>1. j = 0 \/ j \in 1 .. IdLen
    BY <1>0
  <2> QED BY <1>2, <2>1
<1>4. k \in [0 .. IdLen -> {0, 1}]
  <2>1. k = [j \in 0 .. IdLen |-> k[j]]
    BY <1>1 DEF IsCarries
  <2> HIDE DEF IsCarries
  <2> QED BY <1>3, <2>1
<1>5. ASSUME NEW j \in 1 .. IdLen
      PROVE  b[j] + 256 * k[j] - a[j] - k[j - 1] \in Byte
  <2> DEFINE c == a[j]
             d == b[j]
             l == k[j - 1]
             t == k[j]
  <2>1. c \in 0 .. 255 /\ d \in 0 .. 255 /\ l \in {0, 1}
    BY <1>0, <1>3, <1>b DEF Byte
  <2>2. t = IF c + l > d THEN 1 ELSE 0
    BY <1>2
  <2> HIDE DEF c, d, l, t
  <2>3. d + 256 * t - c - l \in 0 .. 255
    BY <2>1, <2>2
  <2> QED BY <2>3 DEF Byte, c, d, l, t
<1>6. k[IdLen] = 0
  <2> SUFFICES ASSUME k[IdLen] # 0 PROVE FALSE
    OBVIOUS
  <2>1. k[IdLen] = 1
    BY <1>0, <1>3
  <2> DEFINE S == {n \in 0 .. IdLen : ~(v[n] + k[IdLen - n] > w[n])}
  <2>2. S = {}
    <3> SUFFICES ASSUME S # {} PROVE FALSE
      OBVIOUS
    <3>1. S \in SUBSET Nat
      BY <1>0
    <3>2. PICK x \in S : \A y \in S : ~(y < x)
      BY <3>1, LeastElement
    <3>3. x # 0
      BY <1>0, <2>1, <3>2, HornerSteps
    <3>4. x \in 1 .. IdLen /\ x - 1 \in 0 .. IdLen /\ x - 1 < x
      BY <1>0, <3>2, <3>3
    <3> DEFINE j == IdLen - x + 1
               A == v[x - 1]
               B == w[x - 1]
               c == a[j]
               d == b[j]
               t == k[j]
               l == k[j - 1]
    <3>5. j \in 1 .. IdLen /\ j - 1 \in 0 .. IdLen /\ IdLen - (x - 1) = j /\ IdLen - x = j - 1
      BY <1>0, <3>4
    <3>6. A + t > B
      BY <3>2, <3>4, <3>5
    <3>7. /\ v[x] = 256 * A + c /\ w[x] = 256 * B + d /\ A \in Int /\ B \in Int
      BY <3>4, HornerSteps
    <3>8. /\ c \in Int /\ d \in Int /\ t \in {0, 1} /\ l \in {0, 1}
          /\ d + 256 * t - c - l <= 255
      <4>1. c \in Byte /\ d \in Byte
        BY <1>b, <3>5
      <4>2. d + 256 * t - c - l \in Byte
        BY <1>5, <3>5
      <4>3. t \in {0, 1} /\ l \in {0, 1}
        BY <1>3, <3>5
      <4> HIDE DEF c, d, t, l
      <4> QED BY <4>1, <4>2, <4>3 DEF Byte
    <3>9. 256 * A + c + l > 256 * B + d
      <4> HIDE DEF A, B, c, d, t, l, j
      <4> QED BY <3>6, <3>7, <3>8
    <3>10. v[x] + k[IdLen - x] > w[x]
      BY <3>5, <3>7, <3>9
    <3> QED BY <3>2, <3>10
  <2>3. v[IdLen] + k[IdLen - IdLen] > w[IdLen]
    BY <1>0, <2>2
  <2>4. v[IdLen] \in Int /\ w[IdLen] \in Int /\ k[IdLen - IdLen] = 1
    BY <1>0, <1>2, HornerSteps
  <2> QED BY <2>3, <2>4
<1>7. \A j \in 1 .. IdLen : b[j] + 256 * k[j] - a[j] - k[j - 1] \in Byte
  BY <1>5
<1>8. k[0] = 1
  BY <1>2
<1>9. FillsChain(k, a, b)
  BY <1>6, <1>7, <1>8 DEF FillsChain
<1>10. \E carry \in [0 .. IdLen -> {0, 1}] : FillsChain(carry, a, b)
  BY <1>4, <1>9, Zenon
<1> QED BY <1>10 DEF ByteChain, FillsChain

(* Two ids of bytes fill the chain when and only when their numbers are in    *)
(* strict order.                                                              *)
LEMMA ChainIsOrder ==
    ASSUME NEW a, NEW b, Len(a) = IdLen, Len(b) = IdLen,
           \A j \in 1 .. IdLen : a[j] \in Byte /\ b[j] \in Byte
    PROVE  ByteChain(a, b) <=> NumberLE(a) < NumberLE(b)
<1>1. PICK v : IsHorner(v, a, IdLen) /\ NumberLE(a) = v[IdLen]
  BY NumberIsHorner
<1>2. PICK w : IsHorner(w, b, IdLen) /\ NumberLE(b) = w[IdLen]
  BY NumberIsHorner
<1>3. Ids(a, b, v, w)
  BY <1>1, <1>2 DEF Ids
<1>4. ByteChain(a, b) => v[IdLen] < w[IdLen]
  BY <1>3, ChainOrders
<1>5. v[IdLen] < w[IdLen] => ByteChain(a, b)
  BY <1>3, ChainExists
<1> QED BY <1>1, <1>2, <1>4, <1>5

(* The range row says what Between says.                                      *)
LEMMA RangeRowIsBetween ==
    ASSUME NEW lo, NEW hi, NEW digest \in Seq(Int), Len(digest) = DigestLen,
           Len(lo) = IdLen, Len(hi) = IdLen,
           \A j \in 1 .. IdLen : digest[j] \in Byte /\ lo[j] \in Byte /\ hi[j] \in Byte
    PROVE  RangeRow([digest |-> digest, lo |-> lo, hi |-> hi]) <=> Between(lo, digest, hi)
<1> DEFINE id == SubSeq(digest, 1, IdLen)
<1>1. /\ Len(id) = IdLen /\ \A j \in 1 .. IdLen : id[j] = digest[j]
  BY LengthsAssumption
<1>2. \A j \in 1 .. IdLen : id[j] \in Byte
  BY <1>1
<1> HIDE DEF id
<1>3. ByteChain(lo, id) <=> NumberLE(lo) < NumberLE(id)
  BY <1>1, <1>2, ChainIsOrder
<1>4. ByteChain(id, hi) <=> NumberLE(id) < NumberLE(hi)
  BY <1>1, <1>2, ChainIsOrder
<1> QED BY <1>2, <1>3, <1>4 DEF RangeRow, Between, id

-----------------------------------------------------------------------------
(* What a balanced proof says of the revocation range.                        *)
LEMMA BalancedRange ==
    ASSUME StatementShape, AllRows, Balanced, HasRange
    PROVE  /\ Reads(Issuer, statement.payload.offset, Bytes(Mso, 0, statement.payload.len))
           /\ Between(rows.range.lo, Hash(preimages[Mso]), rows.range.hi)
           /\ HasSignature =>
                 /\ Reads(RevocationMessage, 0,
                          rows.range.lo \o rows.range.hi \o statement.revocation.epoch)
                 /\ Hash(preimages[RevocationMessage]) = statement.revocationHash
<1>1. /\ Use("payload_bind", Issuer, MSO_PAYLOAD, rows.payload) \in FieldUses
      /\ Use("payload_bind", Mso, MSO_PAYLOAD, rows.payload) \in FieldUses
  BY DEF FieldUses, PayloadUses
<1>2. Reads(Issuer, statement.payload.offset, rows.payload)
  BY <1>1, IssuerWindows, Reading DEF StatementShape
<1>3. Reads(Mso, 0, rows.payload)
  BY <1>1, MsoWindow, Reading
<1>4. Bytes(Mso, 0, statement.payload.len) = rows.payload
  BY <1>3 DEF Reads, AllRows, PayloadRows
<1>5. Hash(preimages[Mso]) = rows.range.digest
  <2>1. DigestUse("revocation_range", Mso, rows.range.digest) \in DigestUses
    BY DEF DigestUses
  <2> QED BY <2>1, DigestReading
<1>6. Between(rows.range.lo, rows.range.digest, rows.range.hi)
  BY DEF AllRows, RangeRows
<1>7. ASSUME HasSignature
      PROVE  /\ Reads(RevocationMessage, 0,
                      rows.range.lo \o rows.range.hi \o statement.revocation.epoch)
             /\ Hash(preimages[RevocationMessage]) = statement.revocationHash
  <2> DEFINE m == rows.range.lo \o rows.range.hi \o statement.revocation.epoch
  <2>1. RangeUses = {Use("revocation_range", RevocationMessage, REVOCATION_MESSAGE, m)}
    BY <1>7 DEF RangeUses
  <2> HIDE DEF m
  <2>2. Use("revocation_range", RevocationMessage, REVOCATION_MESSAGE, m) \in FieldUses
    BY <2>1 DEF FieldUses
  <2>3. Reads(RevocationMessage, 0, m)
    BY <2>2, RevocationWindow, Reading
  <2>4. DigestUse("digest_bind", RevocationMessage, statement.revocationHash) \in DigestUses
    BY <1>7 DEF DigestUses
  <2>5. Hash(preimages[RevocationMessage]) = statement.revocationHash
    BY <2>4, DigestReading
  <2> QED BY <2>3, <2>5 DEF m
<1> QED BY <1>2, <1>4, <1>5, <1>6, <1>7

-----------------------------------------------------------------------------
(* An extracted statement has its shape.                                      *)

Extraction(c, policy, build, revocation) ==
    /\ c \in Credentials /\ policy \in Policies /\ build \in Builds
    /\ revocation \in Revocations /\ Extractable(c, policy)
    /\ statement = FromExtracted(c, policy, build, revocation)

StatementIsExtracted ==
    \E policy, build, revocation : Extraction(credential, policy, build, revocation)

LEMMA AnchorsAreText ==
    /\ \A n \in Nat : IsText(DigestAnchor(n))
    /\ \A e : Len(e) \in Nat => IsText(ElementAnchor(e))
    /\ \A label \in Nat : IsText(TdateAnchor(label))
    /\ IsText(KeyXAnchor) /\ IsText(KeyYAnchor)
<1>1. ASSUME NEW n \in Nat PROVE IsText(DigestAnchor(n))
  <2>1. CborUintKey(n) \in Seq(Int)
    <3>1. CASE n < 24
      <4>1. CborUintKey(n) = <<n>>
        BY <3>1 DEF CborUintKey
      <4> QED BY <4>1
    <3>2. CASE 24 <= n /\ n < 256
      <4>1. CborUintKey(n) = <<24, n>>
        BY <3>2 DEF CborUintKey
      <4> QED BY <4>1
    <3>3. CASE 256 <= n /\ n < 256 * 256
      <4>1. CborUintKey(n) = <<25, n \div 256, n % 256>>
        BY <3>3 DEF CborUintKey
      <4> QED BY <4>1
    <3>4. CASE 256 * 256 <= n
      <4>1. CborUintKey(n) = <<26, n \div (256 * 256 * 256), (n \div (256 * 256)) % 256,
                               (n \div 256) % 256, n % 256>>
        BY <3>4 DEF CborUintKey
      <4> QED BY <4>1
    <3> QED BY <3>1, <3>2, <3>3, <3>4
  <2>2. CborUintKey(n) \o <<88, 32>> \in Seq(Int)
    BY <2>1
  <2> QED BY <2>2 DEF DigestAnchor, IsText
<1>2. ASSUME NEW e, Len(e) \in Nat PROVE IsText(ElementAnchor(e))
  <2>1. <<ElementIdentifierLabel>> \in Seq(Int)
    BY DEF ElementIdentifierLabel
  <2>2. CborTextHead(Len(e)) \in Seq(Int)
    BY <1>2 DEF CborTextHead
  <2>3. ElementAnchor(e) \in Seq(Int)
    BY <2>1, <2>2 DEF ElementAnchor
  <2> QED BY <2>3 DEF IsText
<1>3. ASSUME NEW label \in Nat PROVE IsText(TdateAnchor(label))
  <2>1. TdateAnchor(label) \in Seq(Int)
    BY DEF TdateAnchor
  <2> QED BY <2>1 DEF IsText
<1>4. KeyXAnchor \in Seq(Int) /\ KeyYAnchor \in Seq(Int)
  BY DEF KeyXAnchor, KeyYAnchor
<1> QED BY <1>1, <1>2, <1>3, <1>4 DEF IsText

LEMMA StatementHasShape ==
    ASSUME NEW c, NEW policy, NEW build, NEW revocation,
           Extraction(c, policy, build, revocation)
    PROVE  /\ StatementShape /\ PolicyShape /\ statement.build \in {"legacy", "coprocessor"}
           /\ Attributes = DOMAIN c.attributes
           /\ \A i \in Attributes :
                 /\ statement.attributes[i].mode = c.attributes[i].mode
                 /\ statement.attributes[i].value = c.attributes[i].value
                 /\ c.attributes[i].value \in Seq(Int)
           /\ statement.payload.len = Len(c.mso) /\ c.mso \in Seq(Int)
           /\ statement.revocation \in Revocations
<1>1. /\ statement.attributes = [i \in DOMAIN c.attributes |->
                                    StatementAttribute(c, c.attributes[i])]
      /\ statement.keyX = Located(Find(c.issuer, c.keyX), KeyXAnchor)
      /\ statement.keyY = Located(Find(c.issuer, c.keyY), KeyYAnchor)
      /\ statement.from = Located(DateOffset(c, ValidFromLabel, c.validFrom),
                                  TdateAnchor(ValidFromLabel))
      /\ statement.until = Located(DateOffset(c, ValidUntilLabel, c.validUntil),
                                   TdateAnchor(ValidUntilLabel))
      /\ statement.payload.len = Len(c.mso)
      /\ statement.deviceKey = <<c.keyX, c.keyY>>
      /\ statement.revocation = revocation
      /\ statement.build = build /\ statement.policy = policy
  BY DEF Extraction, FromExtracted
<1>2. DOMAIN c.attributes = 1 .. Len(c.attributes)
  BY CredentialsAssumption DEF Extraction
<1>3. Attributes = DOMAIN c.attributes /\ Len(c.attributes) \in 1 .. MAX_DISCLOSED_ATTRIBUTES
  BY <1>1 DEF Attributes, Extraction, Extractable
<1>4. ASSUME NEW i \in Attributes
      PROVE  /\ AttributeShape(statement.attributes[i])
             /\ statement.attributes[i].mode = c.attributes[i].mode
             /\ statement.attributes[i].value = c.attributes[i].value
             /\ c.attributes[i].value \in Seq(Int)
  <2> DEFINE a == c.attributes[i]
             sa == statement.attributes[i]
  <2>1. /\ a.mode \in {"age", "alpha2", "equality"}
        /\ a.element \in Seq(Int) /\ a.value \in Seq(Int)
        /\ a.headLen \in 0 .. Len(a.value) /\ a.digestId \in Nat
    BY <1>3, CredentialsAssumption DEF Extraction
  <2>2. sa = StatementAttribute(c, a)
    BY <1>1, <1>3
  <2> HIDE DEF a, sa
  <2>3. /\ sa.mode = a.mode /\ sa.element = a.element /\ sa.value = a.value
        /\ sa.head = SubSeq(a.value, 1, a.headLen)
        /\ sa.name = Located(Find(a.item, a.element), ElementAnchor(a.element))
        /\ sa.digest = Located(Find(c.issuer, Hash(a.item)), DigestAnchor(a.digestId))
    BY <2>2 DEF StatementAttribute
  <2>6. sa.name.anchor = ElementAnchor(a.element) /\ sa.digest.anchor = DigestAnchor(a.digestId)
    BY <2>3 DEF Located
  <2>4. SubSeq(a.value, 1, a.headLen) \in Seq(Int)
    BY <2>1, SubSeqProperties
  <2>5. /\ IsText(sa.name.anchor) /\ IsText(sa.digest.anchor)
        /\ IsText(sa.head) /\ IsText(sa.element) /\ IsText(sa.value)
    <3>1. Len(a.element) \in Nat
      BY <2>1
    <3>2. IsText(ElementAnchor(a.element)) /\ IsText(DigestAnchor(a.digestId))
      BY <2>1, <3>1, AnchorsAreText
    <3> QED BY <2>1, <2>3, <2>4, <2>6, <3>2 DEF IsText
  <2> QED BY <2>1, <2>3, <2>5 DEF AttributeShape, LocatedText, a, sa
<1>5. AttributesShape
  BY <1>2, <1>3, <1>4 DEF AttributesShape
<1>6. /\ IsText(statement.keyX.anchor) /\ IsText(statement.keyY.anchor)
      /\ IsText(statement.from.anchor) /\ IsText(statement.until.anchor)
  BY <1>1, AnchorsAreText DEF Located, ValidFromLabel, ValidUntilLabel
<1>7. /\ IsText(statement.deviceKey[1]) /\ IsText(statement.deviceKey[2])
      /\ c.mso \in Seq(Int)
  BY <1>1, CredentialsAssumption DEF Extraction, IsText
<1>8. statement.revocation \in Revocations /\ statement.revocation.epoch \in Seq(Int)
  BY <1>1, RevocationsAssumption DEF Extraction
<1>9. PolicyShape
  BY <1>1, PoliciesAssumption DEF Extraction, PolicyShape
<1>10. statement.build \in {"legacy", "coprocessor"}
  BY <1>1, BuildsAssumption DEF Extraction
<1> QED BY <1>1, <1>3, <1>4, <1>5, <1>6, <1>7, <1>8, <1>9, <1>10 DEF StatementShape, LocatedText

-----------------------------------------------------------------------------
(* The inductive invariant: a module that has written its rows satisfies its  *)
(* own constraints, and a verdict is only given to rows that all modules have *)
(* written.                                                                   *)

RowFields == {"digests", "from", "until", "payload", "range", "birth", "country", "mac"}

AfterMac == {"verify"}
AfterNationality == {"mac"} \cup AfterMac
AfterAge == {"nationality"} \cup AfterNationality
AfterRange == {"age"} \cup AfterAge
AfterPayload == {"revocation_range"} \cup AfterRange
AfterValidity == {"payload_bind"} \cup AfterPayload
AfterWindowBind == {"validity"} \cup AfterValidity

WrittenRows ==
    /\ stage \in AfterWindowBind => DigestRows
    /\ stage \in AfterValidity => ValidityRows
    /\ stage \in AfterPayload => PayloadRows
    /\ stage \in AfterRange => RangeRows
    /\ stage \in AfterAge => BirthRows
    /\ stage \in AfterNationality => CountryRows
    /\ stage \in AfterMac => MacRows

Promises ==
    ItemsAreIssued /\ PredicatesHold /\ ValidOnPolicyDate /\ SignedByDeviceKey /\ NotRevoked

IInv ==
    /\ TypeOK
    /\ StatementIsExtracted
    /\ DOMAIN rows = RowFields
    /\ WrittenRows
    /\ Promises

LEMMA InitIInv == Init => IInv
<1> SUFFICES ASSUME Init PROVE IInv
  OBVIOUS
<1>1. TypeOK
  <2>1. DOMAIN preimages = {}
    BY DEF Init
  <2> QED BY <2>1 DEF Init, TypeOK
<1>2. StatementIsExtracted
  BY DEF Init, StatementIsExtracted, Extraction
<1>3. DOMAIN rows = RowFields
  BY DEF Init, RowFields
<1>4. WrittenRows /\ ~ Accepted
  BY DEF Init, WrittenRows, Accepted, AfterMac, AfterNationality, AfterAge, AfterRange,
         AfterPayload, AfterValidity, AfterWindowBind
<1>5. Promises
  BY <1>4 DEF Promises, ItemsAreIssued, PredicatesHold, ValidOnPolicyDate, SignedByDeviceKey,
              NotRevoked
<1> QED BY <1>1, <1>2, <1>3, <1>4, <1>5 DEF IInv

(* A step that keeps the statement keeps what is said of it.                  *)
LEMMA StatementKept ==
    ASSUME StatementIsExtracted, UNCHANGED <<credential, statement>>
    PROVE  StatementIsExtracted'
<1>1. PICK policy, build, revocation : Extraction(credential, policy, build, revocation)
  BY DEF StatementIsExtracted
<1>2. Extraction(credential, policy, build, revocation)'
  BY <1>1 DEF Extraction
<1> QED BY <1>2 DEF StatementIsExtracted

LEMMA SourcesKept ==
    ASSUME statement' = statement
    PROVE  Sources' = Sources
BY SMT DEF Sources, Attributes, HasRange, HasSignature

USE DEF AfterMac, AfterNationality, AfterAge, AfterRange, AfterPayload, AfterValidity,
        AfterWindowBind

LEMMA NextTypeOK == TypeOK /\ Next => TypeOK'
<1> SUFFICES ASSUME TypeOK, Next PROVE TypeOK'
  OBVIOUS
<1>1. ASSUME NEW s \in Sources, ShaWrites(s) PROVE TypeOK'
  <2>1. DOMAIN preimages' = DOMAIN preimages \cup {s}
    BY <1>1 DEF ShaWrites
  <2>2. Sources' = Sources
    BY <1>1, SourcesKept DEF ShaWrites
  <2>3. /\ stage = "sha" /\ UNCHANGED <<credential, prover, verdict>>
        /\ stage' = IF DOMAIN preimages' = Sources THEN "window_bind" ELSE "sha"
    BY <1>1 DEF ShaWrites
  <2> QED BY <1>1, <2>1, <2>2, <2>3 DEF TypeOK
<1>2. ASSUME NEW name \in {"window_bind", "validity", "payload_bind", "revocation_range",
                           "age", "nationality", "mac"},
             NEW next \in {"validity", "payload_bind", "revocation_range", "age",
                           "nationality", "mac", "verify"},
             Wrote(name, next)
      PROVE  TypeOK'
  <2>1. Sources' = Sources
    BY <1>2, SourcesKept DEF Wrote
  <2> QED BY <1>2, <2>1 DEF Wrote, TypeOK
<1>3. CASE Refuses
  <2>1. Sources' = Sources
    BY <1>3, SourcesKept DEF Refuses
  <2> QED BY <1>3, <2>1 DEF Refuses, TypeOK
<1>4. CASE Verify
  <2>1. Sources' = Sources
    BY <1>4, SourcesKept DEF Verify
  <2> QED BY <1>4, <2>1 DEF Verify, TypeOK
<1>5. CASE WindowBindWrites
  BY <1>2, <1>5 DEF WindowBindWrites
<1>6. CASE ValidityWrites
  BY <1>2, <1>6 DEF ValidityWrites
<1>7. CASE PayloadBindWrites
  BY <1>2, <1>7 DEF PayloadBindWrites
<1>8. CASE RangeWrites
  <2>1. Wrote("revocation_range", "age")
    BY <1>8 DEF RangeWrites
  <2> QED BY <1>2, <2>1
<1>9. CASE AgeWrites
  BY <1>2, <1>9 DEF AgeWrites
<1>10. CASE NationalityWrites
  BY <1>2, <1>10 DEF NationalityWrites
<1>11. CASE MacWrites
  BY SMTT(40), <1>2, <1>11 DEF MacWrites
<1> QED BY <1>1, <1>3, <1>4, <1>5, <1>6, <1>7, <1>8, <1>9, <1>10, <1>11 DEF Next

LEMMA ItemsPromised ==
    ASSUME UNCHANGED <<statement, preimages>>,
           \A i \in Attributes :
              LET a == statement.attributes[i] IN
              /\ ReadsLocated(Issuer, a.digest, Hash(preimages[Item(i)]))
              /\ ReadsLocated(Item(i), a.name, a.element)
              /\ a.mode = "equality" => /\ Reads(Item(i), a.valueOffset, a.value)
                                        /\ Reads(Item(i), a.valueOffset, a.head)
    PROVE  ItemsAreIssued'
<1> SUFFICES ASSUME Accepted', NEW i \in Attributes'
             PROVE  LET a == statement.attributes[i]
                        m == preimages[Item(i)]
                    IN  /\ ReadsLocated(Issuer, a.digest, Hash(m))'
                        /\ ReadsLocated(Item(i), a.name, a.element)'
                        /\ a.mode = "equality" => /\ Reads(Item(i), a.valueOffset, a.value)'
                                                  /\ Reads(Item(i), a.valueOffset, a.head)'
  BY Zenon DEF ItemsAreIssued
<1>1. i \in Attributes
  BY DEF Attributes
<1> DEFINE a == statement.attributes[i]
<1>2. /\ ReadsLocated(Issuer, a.digest, Hash(preimages[Item(i)]))
      /\ ReadsLocated(Item(i), a.name, a.element)
      /\ a.mode = "equality" => /\ Reads(Item(i), a.valueOffset, a.value)
                                /\ Reads(Item(i), a.valueOffset, a.head)
  BY <1>1
<1> QED BY ZenonT(40), <1>2 DEF ReadsLocated, Reads, Bytes, Item, Issuer

(* The promises are about what the verdict was given to.                      *)
LEMMA PromisesKept ==
    ASSUME UNCHANGED <<statement, preimages, rows>>, Accepted' => Accepted, Promises
    PROVE  Promises'
<1>1. ItemsAreIssued'
  <2>1. CASE Accepted
    BY <2>1, ItemsPromised DEF Promises, ItemsAreIssued
  <2>2. CASE ~ Accepted
    BY <2>2 DEF ItemsAreIssued
  <2> QED BY <2>1, <2>2
<1>2. PredicatesHold'
  BY DEF Promises, PredicatesHold, AttributesOf, Attributes, ValueLen, Bytes, Item, BirthRow,
         CountryRow
<1>3. ValidOnPolicyDate'
  BY ZenonT(60) DEF Promises, ValidOnPolicyDate, ReadsLocated, Reads, Bytes, Issuer
<1>4. SignedByDeviceKey'
  BY DEF Promises, SignedByDeviceKey, ProvenIssuerHash, ProvenDeviceKey, ReadsLocated, Reads,
         Bytes, Issuer, Device
<1>5. NotRevoked'
  BY ZenonT(40) DEF Promises, NotRevoked, HasRange, HasSignature, Reads, Bytes, Issuer, Mso,
         RevocationMessage
<1> QED BY <1>1, <1>2, <1>3, <1>4, <1>5 DEF Promises

(* A step that keeps the statement and a row keeps what is said of the row.   *)
LEMMA RowsKept ==
    ASSUME statement' = statement
    PROVE  /\ rows'.digests = rows.digests /\ DigestRows => DigestRows'
           /\ rows'.from = rows.from /\ rows'.until = rows.until /\ ValidityRows => ValidityRows'
           /\ rows'.payload = rows.payload /\ PayloadRows => PayloadRows'
           /\ rows'.range = rows.range /\ RangeRows => RangeRows'
           /\ rows'.birth = rows.birth /\ BirthRows => BirthRows'
           /\ rows'.country = rows.country /\ CountryRows => CountryRows'
           /\ rows'.mac = rows.mac /\ MacRows => MacRows'
<1>1. rows'.digests = rows.digests /\ DigestRows => DigestRows'
  BY DEF DigestRows, Attributes
<1>2. rows'.from = rows.from /\ rows'.until = rows.until /\ ValidityRows => ValidityRows'
  BY DEF ValidityRows
<1>3. rows'.payload = rows.payload /\ PayloadRows => PayloadRows'
  BY DEF PayloadRows, HasRange
<1>4. rows'.range = rows.range /\ RangeRows => RangeRows'
  BY DEF RangeRows, HasRange
<1>5. rows'.birth = rows.birth /\ BirthRows => BirthRows'
  BY DEF BirthRows, AttributesOf, Attributes, ValueLen, BirthRow
<1>6. rows'.country = rows.country /\ CountryRows => CountryRows'
  BY DEF CountryRows, AttributesOf, Attributes, ValueLen, CountryRow
<1>7. rows'.mac = rows.mac /\ MacRows => MacRows'
  BY DEF MacRows
<1> QED BY <1>1, <1>2, <1>3, <1>4, <1>5, <1>6, <1>7

(* What the cells of the prover's choice are.                                 *)
LEMMA CellsAreText ==
    ASSUME NEW n, NEW x \in CellsOf(n)
    PROVE  x \in Seq(Int) /\ IsText(x) /\ Len(x) = n
<1>1. x \in Seq(Int) /\ Len(x) = n
  BY CellsAssumption DEF CellsOf
<1> QED BY <1>1 DEF IsText

LEMMA ChoicesAreText ==
    ASSUME NEW own, NEW n, IsText(own), Len(own) = n, NEW x \in RowChoices(own, CellsOf(n))
    PROVE  IsText(x) /\ Len(x) = n
BY CellsAreText DEF RowChoices

LEMMA ChoicesAreBytes ==
    ASSUME NEW own \in Seq(Int), NEW n, NEW x \in RowChoices(own, CellsOf(n))
    PROVE  x \in Seq(Int)
BY CellsAreText DEF RowChoices

LEMMA WindowBindRows ==
    ASSUME IInv, WindowBindWrites
    PROVE  WrittenRows' /\ DOMAIN rows' = RowFields
<1> DEFINE own == [i \in Attributes |->
                      Bytes(Issuer, statement.attributes[i].digest.offset, DigestLen)]
<1>1. PICK d \in RowChoices(own, [Attributes -> CellsOf(DigestLen)]) :
          rows' = [rows EXCEPT !.digests = d]
  BY DEF WindowBindWrites
<1>2. stage' = "validity" /\ statement' = statement
  BY DEF WindowBindWrites, Wrote
<1>3. DOMAIN rows = RowFields
  BY DEF IInv
<1>4. rows'.digests = d /\ DOMAIN rows' = RowFields
  BY <1>1, <1>3 DEF RowFields
<1>5. ASSUME NEW i \in Attributes PROVE IsText(d[i])
  <2>1. CASE prover = "honest"
    <3>1. d[i] = Bytes(Issuer, statement.attributes[i].digest.offset, DigestLen)
      BY <1>5, <2>1 DEF RowChoices
    <3> QED BY <3>1, BytesIsText, LengthsAssumption
  <2>2. CASE prover # "honest"
    <3>1. d[i] \in CellsOf(DigestLen)
      BY <1>5, <2>2 DEF RowChoices
    <3> QED BY <3>1, CellsAreText
  <2> QED BY <2>1, <2>2
<1>6. DigestRows'
  BY <1>2, <1>4, <1>5 DEF DigestRows, Attributes
<1> QED BY <1>2, <1>4, <1>6 DEF WrittenRows

LEMMA ValidityRowsWritten ==
    ASSUME IInv, ValidityWrites
    PROVE  WrittenRows' /\ DOMAIN rows' = RowFields
<1> DEFINE ownFrom == Bytes(Issuer, statement.from.offset, TextLen)
           ownUntil == Bytes(Issuer, statement.until.offset, TextLen)
<1>1. PICK from \in RowChoices(ownFrom, CellsOf(TextLen)),
           until \in RowChoices(ownUntil, CellsOf(TextLen)) :
          /\ ValidFromRow(from, statement.policy.date)
          /\ ValidUntilRow(until, statement.policy.date)
          /\ rows' = [rows EXCEPT !.from = from, !.until = until]
  BY DEF ValidityWrites
<1>2. stage = "validity" /\ stage' = "payload_bind" /\ statement' = statement
  BY DEF ValidityWrites, Wrote
<1>3. DOMAIN rows = RowFields /\ DigestRows
  BY <1>2 DEF IInv, WrittenRows
<1>4. /\ rows'.from = from /\ rows'.until = until /\ rows'.digests = rows.digests
      /\ DOMAIN rows' = RowFields
  BY <1>1, <1>3 DEF RowFields
<1>5. IsText(from) /\ Len(from) = TextLen /\ IsText(until) /\ Len(until) = TextLen
  <2>1. TextLen \in Nat
    BY DEF TextLen
  <2>2. /\ IsText(ownFrom) /\ Len(ownFrom) = TextLen
        /\ IsText(ownUntil) /\ Len(ownUntil) = TextLen
    BY <2>1, BytesIsText
  <2> HIDE DEF ownFrom, ownUntil
  <2> QED BY <2>2, ChoicesAreText
<1>6. ValidityRows'
  BY <1>1, <1>2, <1>4, <1>5 DEF ValidityRows
<1>7. DigestRows'
  BY <1>2, <1>3, <1>4, RowsKept
<1> QED BY <1>2, <1>4, <1>6, <1>7 DEF WrittenRows

LEMMA PayloadRowsWritten ==
    ASSUME IInv, PayloadBindWrites
    PROVE  WrittenRows' /\ DOMAIN rows' = RowFields
<1>1. stage = "payload_bind" /\ stage' = "revocation_range" /\ statement' = statement
  BY DEF PayloadBindWrites, Wrote
<1>2. DOMAIN rows = RowFields /\ DigestRows /\ ValidityRows
  BY <1>1 DEF IInv, WrittenRows
<1>3. CASE HasRange
  <2>1. PICK policy, build, revocation : Extraction(credential, policy, build, revocation)
    BY DEF IInv, StatementIsExtracted
  <2>2. statement.payload.len = Len(credential.mso) /\ credential.mso \in Seq(Int)
    BY <2>1, StatementHasShape
  <2>3. PICK p \in RowChoices(credential.mso, CellsOf(statement.payload.len)) :
            rows' = [rows EXCEPT !.payload = p]
    BY <1>3 DEF PayloadBindWrites
  <2>4. IsText(credential.mso)
    BY <2>2 DEF IsText
  <2>5. IsText(p) /\ Len(p) = statement.payload.len
    BY <2>2, <2>3, <2>4, ChoicesAreText
  <2>6. /\ rows'.payload = p /\ rows'.digests = rows.digests
        /\ rows'.from = rows.from /\ rows'.until = rows.until /\ DOMAIN rows' = RowFields
    BY <1>2, <2>3 DEF RowFields
  <2>7. DigestRows' /\ ValidityRows'
    BY <1>1, <1>2, <2>6, RowsKept
  <2>8. PayloadRows'
    BY <1>1, <2>5, <2>6 DEF PayloadRows
  <2> QED BY <1>1, <2>6, <2>7, <2>8 DEF WrittenRows
<1>4. CASE ~ HasRange
  <2>1. rows' = rows
    BY <1>4 DEF PayloadBindWrites
  <2>2. DigestRows' /\ ValidityRows'
    BY <1>1, <1>2, <2>1, RowsKept
  <2>3. PayloadRows'
    BY <1>1, <1>4 DEF PayloadRows, HasRange
  <2> QED BY <1>1, <1>2, <2>1, <2>2, <2>3 DEF WrittenRows
<1> QED BY <1>3, <1>4

LEMMA IntegersOf ==
    ASSUME NEW S \in SUBSET Int, NEW x \in Seq(S)
    PROVE  x \in Seq(Int) /\ \A j \in 1 .. Len(x) : x[j] \in S
<1>1. \A j \in 1 .. Len(x) : x[j] \in S
  OBVIOUS
<1>2. x = [j \in 1 .. Len(x) |-> x[j]] /\ Len(x) \in Nat
  OBVIOUS
<1>3. \A j \in 1 .. Len(x) : x[j] \in Int
  BY <1>1
<1>4. x \in [1 .. Len(x) -> Int]
  BY <1>2, <1>3
<1> QED BY <1>1, <1>2, <1>4

(* An honest prover's digest and neighbours are bytes of their widths.        *)
LEMMA RangeIsBytes ==
    ASSUME StatementIsExtracted, HasRange
    PROVE  /\ Hash(credential.mso) \in Seq(Int) /\ Len(Hash(credential.mso)) = DigestLen
           /\ statement.revocation.lo \in Seq(Int) /\ statement.revocation.hi \in Seq(Int)
           /\ Len(statement.revocation.lo) = IdLen /\ Len(statement.revocation.hi) = IdLen
           /\ \A j \in 1 .. IdLen : /\ Hash(credential.mso)[j] \in Byte
                                     /\ statement.revocation.lo[j] \in Byte
                                     /\ statement.revocation.hi[j] \in Byte
<1>1. PICK policy, build, revocation : Extraction(credential, policy, build, revocation)
  BY DEF StatementIsExtracted
<1>2. credential \in Credentials
  BY <1>1 DEF Extraction
<1>3. statement.revocation \in Revocations
  BY <1>1, StatementHasShape
<1> DEFINE d == Hash(credential.mso)
           lo == statement.revocation.lo
           hi == statement.revocation.hi
<1>4. d \in Seq(0 .. 255) /\ Len(d) = DigestLen
  BY <1>2, BytesAssumption
<1>5. /\ lo \in Seq(0 .. 255) /\ hi \in Seq(0 .. 255)
      /\ Len(lo) = IdLen /\ Len(hi) = IdLen /\ lo \in Seq(Int) /\ hi \in Seq(Int)
  BY <1>3, BytesAssumption, WidthsAssumption, RevocationsAssumption DEF HasRange
<1> HIDE DEF d, lo, hi
<1>b. 0 .. 255 \in SUBSET Int
  OBVIOUS
<1>6. d \in Seq(Int)
  BY <1>4, <1>b, IntegersOf
<1>7. ASSUME NEW j \in 1 .. IdLen PROVE d[j] \in Byte /\ lo[j] \in Byte /\ hi[j] \in Byte
  <2>1. j \in 1 .. DigestLen
    BY LengthsAssumption
  <2>2. /\ \A n \in 1 .. Len(d) : d[n] \in 0 .. 255
        /\ \A n \in 1 .. Len(lo) : lo[n] \in 0 .. 255
        /\ \A n \in 1 .. Len(hi) : hi[n] \in 0 .. 255
    BY <1>4, <1>5, <1>b, IntegersOf
  <2>3. d[j] \in 0 .. 255 /\ lo[j] \in 0 .. 255 /\ hi[j] \in 0 .. 255
    BY <1>4, <1>5, <2>1, <2>2
  <2> QED BY <2>3 DEF Byte
<1> QED BY <1>4, <1>5, <1>6, <1>7 DEF d, lo, hi

(* The rows of the range, free or not, are bytes of their widths, and what    *)
(* the range row says of them is what Between says.                           *)
LEMMA RangeRowChoices ==
    ASSUME StatementIsExtracted, HasRange,
           NEW digest \in RowChoices(Hash(credential.mso), CellsOf(DigestLen)),
           NEW lo \in RowChoices(statement.revocation.lo, CellsOf(IdLen)),
           NEW hi \in RowChoices(statement.revocation.hi, CellsOf(IdLen)),
           RangeRow([digest |-> digest, lo |-> lo, hi |-> hi])
    PROVE  Between(lo, digest, hi)
<1>1. /\ digest \in Seq(Int) /\ Len(digest) = DigestLen
      /\ Len(lo) = IdLen /\ Len(hi) = IdLen
  <2>1. CASE prover = "honest"
    <3>1. /\ digest = Hash(credential.mso)
          /\ lo = statement.revocation.lo /\ hi = statement.revocation.hi
      BY <2>1 DEF RowChoices
    <3> QED BY <3>1, RangeIsBytes
  <2>2. CASE prover # "honest"
    <3>1. digest \in CellsOf(DigestLen) /\ lo \in CellsOf(IdLen) /\ hi \in CellsOf(IdLen)
      BY <2>2 DEF RowChoices
    <3> QED BY <3>1, CellsAreText
  <2> QED BY <2>1, <2>2
<1> DEFINE id == SubSeq(digest, 1, IdLen)
<1>2. \A j \in 1 .. IdLen : id[j] = digest[j]
  BY <1>1, LengthsAssumption
<1> HIDE DEF id
<1>3. \A j \in 1 .. IdLen : id[j] \in Byte /\ lo[j] \in Byte /\ hi[j] \in Byte
  BY DEF RangeRow, id
<1>4. \A j \in 1 .. IdLen : digest[j] \in Byte /\ lo[j] \in Byte /\ hi[j] \in Byte
  BY <1>2, <1>3
<1> QED BY <1>1, <1>4, RangeRowIsBetween

LEMMA RangeRowsWritten ==
    ASSUME IInv, RangeWrites
    PROVE  WrittenRows' /\ DOMAIN rows' = RowFields
<1>1. stage = "revocation_range" /\ stage' = "age" /\ statement' = statement
  BY DEF RangeWrites, Wrote
<1>2. DOMAIN rows = RowFields /\ DigestRows /\ ValidityRows /\ PayloadRows
  BY <1>1 DEF IInv, WrittenRows
<1>3. CASE HasRange
  <2>1. PICK digest \in RowChoices(Hash(credential.mso), CellsOf(DigestLen)),
             lo \in RowChoices(statement.revocation.lo, CellsOf(IdLen)),
             hi \in RowChoices(statement.revocation.hi, CellsOf(IdLen)) :
            /\ RangeRow([digest |-> digest, lo |-> lo, hi |-> hi])
            /\ rows' = [rows EXCEPT !.range = [digest |-> digest, lo |-> lo, hi |-> hi]]
    BY <1>3 DEF RangeWrites
  <2> DEFINE r == [digest |-> digest, lo |-> lo, hi |-> hi]
  <2>2. lo \in Seq(Int) /\ hi \in Seq(Int)
    <3>1. PICK policy, build, revocation : Extraction(credential, policy, build, revocation)
      BY DEF IInv, StatementIsExtracted
    <3>2. statement.revocation.lo \in Seq(Int) /\ statement.revocation.hi \in Seq(Int)
      BY <3>1, StatementHasShape, RevocationsAssumption
    <3> QED BY <2>1, <3>2, ChoicesAreBytes
  <2>b. Between(lo, digest, hi)
    BY <1>3, <2>1, RangeRowChoices DEF IInv
  <2>3. r.lo = lo /\ r.hi = hi /\ r.digest = digest /\ rows' = [rows EXCEPT !.range = r]
    BY <2>1
  <2> HIDE DEF r
  <2>4. /\ rows'.range = r /\ rows'.digests = rows.digests /\ rows'.payload = rows.payload
        /\ rows'.from = rows.from /\ rows'.until = rows.until /\ DOMAIN rows' = RowFields
    BY <1>2, <2>3 DEF RowFields
  <2>5. DigestRows' /\ ValidityRows' /\ PayloadRows'
    BY <1>1, <1>2, <2>4, RowsKept
  <2>6. RangeRows'
    BY <2>2, <2>3, <2>4, <2>b DEF RangeRows
  <2> QED BY <1>1, <2>4, <2>5, <2>6 DEF WrittenRows
<1>4. CASE ~ HasRange
  <2>1. rows' = rows
    BY <1>4 DEF RangeWrites
  <2>2. DigestRows' /\ ValidityRows' /\ PayloadRows'
    BY <1>1, <1>2, <2>1, RowsKept
  <2>3. RangeRows'
    BY <1>1, <1>4 DEF RangeRows, HasRange
  <2> QED BY <1>1, <1>2, <2>1, <2>2, <2>3 DEF WrittenRows
<1> QED BY <1>3, <1>4

(* Only one attribute has an age or a nationality mode.                       *)
LEMMA OnePredicate ==
    ASSUME IInv, NEW mode \in {"age", "alpha2"},
           NEW i \in AttributesOf(mode), NEW j \in AttributesOf(mode)
    PROVE  /\ i = j
           /\ credential.attributes[i].value \in Seq(Int)
           /\ ValueLen(i) = Len(credential.attributes[i].value)
<1>1. PICK policy, build, revocation : Extraction(credential, policy, build, revocation)
  BY DEF IInv, StatementIsExtracted
<1>2. /\ Attributes = DOMAIN credential.attributes
      /\ \A k \in Attributes :
            /\ statement.attributes[k].mode = credential.attributes[k].mode
            /\ statement.attributes[k].value = credential.attributes[k].value
            /\ credential.attributes[k].value \in Seq(Int)
  BY <1>1, StatementHasShape
<1>3. \A k, l \in DOMAIN credential.attributes :
          credential.attributes[k].mode = credential.attributes[l].mode
              /\ credential.attributes[k].mode # "equality" => k = l
  BY <1>1 DEF Extraction, Extractable
<1> QED BY <1>2, <1>3 DEF AttributesOf, ValueLen

LEMMA BirthRowsWritten ==
    ASSUME IInv, AgeWrites
    PROVE  WrittenRows' /\ DOMAIN rows' = RowFields
<1>1. stage = "age" /\ stage' = "nationality" /\ statement' = statement
  BY DEF AgeWrites, Wrote
<1>2. /\ DOMAIN rows = RowFields
      /\ DigestRows /\ ValidityRows /\ PayloadRows /\ RangeRows
  BY <1>1 DEF IInv, WrittenRows
<1>3. CASE AttributesOf("age") # {}
  <2>1. PICK i \in AttributesOf("age") :
          \E b \in RowChoices(credential.attributes[i].value, CellsOf(ValueLen(i))) :
              BirthRow(b) /\ rows' = [rows EXCEPT !.birth = b]
    BY <1>3 DEF AgeWrites
  <2>2. PICK b \in RowChoices(credential.attributes[i].value, CellsOf(ValueLen(i))) :
            BirthRow(b) /\ rows' = [rows EXCEPT !.birth = b]
    BY <2>1
  <2>3. /\ credential.attributes[i].value \in Seq(Int)
        /\ ValueLen(i) = Len(credential.attributes[i].value)
    BY <2>1, OnePredicate
  <2>4. IsText(b) /\ Len(b) = ValueLen(i)
    <3>1. IsText(credential.attributes[i].value)
      BY <2>3 DEF IsText
    <3> QED BY <2>2, <2>3, <3>1, ChoicesAreText
  <2>5. \A j \in AttributesOf("age") : j = i
    BY <2>1, OnePredicate
  <2>6. /\ rows'.birth = b /\ DOMAIN rows' = RowFields
        /\ rows'.digests = rows.digests /\ rows'.from = rows.from
        /\ rows'.until = rows.until /\ rows'.payload = rows.payload
        /\ rows'.range = rows.range
    BY <1>2, <2>2 DEF RowFields
  <2>7. DigestRows' /\ ValidityRows' /\ PayloadRows' /\ RangeRows'
    BY <1>1, <1>2, <2>6, RowsKept
  <2>8. BirthRows'
    BY <1>1, <2>2, <2>4, <2>5, <2>6
       DEF BirthRows, AttributesOf, Attributes, ValueLen, BirthRow
  <2> QED BY <1>1, <2>6, <2>7, <2>8 DEF WrittenRows
<1>4. CASE AttributesOf("age") = {}
  <2>1. rows' = rows
    BY <1>4 DEF AgeWrites
  <2>2. DigestRows' /\ ValidityRows' /\ PayloadRows' /\ RangeRows'
    BY <1>1, <1>2, <2>1, RowsKept
  <2>3. BirthRows'
    BY <1>1, <1>4 DEF BirthRows, AttributesOf, Attributes
  <2> QED BY <1>1, <1>2, <2>1, <2>2, <2>3 DEF WrittenRows
<1> QED BY <1>3, <1>4

LEMMA CountryRowsWritten ==
    ASSUME IInv, NationalityWrites
    PROVE  WrittenRows' /\ DOMAIN rows' = RowFields
<1>1. stage = "nationality" /\ stage' = "mac" /\ statement' = statement
  BY DEF NationalityWrites, Wrote
<1>2. /\ DOMAIN rows = RowFields
      /\ DigestRows /\ ValidityRows /\ PayloadRows /\ RangeRows /\ BirthRows
  BY <1>1 DEF IInv, WrittenRows
<1>3. CASE AttributesOf("alpha2") # {}
  <2>1. PICK i \in AttributesOf("alpha2") :
          \E c \in RowChoices(credential.attributes[i].value, CellsOf(ValueLen(i))) :
              CountryRow(c) /\ rows' = [rows EXCEPT !.country = c]
    BY <1>3 DEF NationalityWrites
  <2>2. PICK c \in RowChoices(credential.attributes[i].value, CellsOf(ValueLen(i))) :
            CountryRow(c) /\ rows' = [rows EXCEPT !.country = c]
    BY <2>1
  <2>3. /\ credential.attributes[i].value \in Seq(Int)
        /\ ValueLen(i) = Len(credential.attributes[i].value)
    BY <2>1, OnePredicate
  <2>4. IsText(c) /\ Len(c) = ValueLen(i)
    <3>1. IsText(credential.attributes[i].value)
      BY <2>3 DEF IsText
    <3> QED BY <2>2, <2>3, <3>1, ChoicesAreText
  <2>5. \A j \in AttributesOf("alpha2") : j = i
    BY <2>1, OnePredicate
  <2>6. /\ rows'.country = c /\ DOMAIN rows' = RowFields
        /\ rows'.digests = rows.digests /\ rows'.from = rows.from
        /\ rows'.until = rows.until /\ rows'.payload = rows.payload
        /\ rows'.range = rows.range /\ rows'.birth = rows.birth
    BY <1>2, <2>2 DEF RowFields
  <2>7. DigestRows' /\ ValidityRows' /\ PayloadRows' /\ RangeRows' /\ BirthRows'
    BY <1>1, <1>2, <2>6, RowsKept
  <2>8. CountryRows'
    BY <1>1, <2>2, <2>4, <2>5, <2>6
       DEF CountryRows, AttributesOf, Attributes, ValueLen, CountryRow
  <2> QED BY <1>1, <2>6, <2>7, <2>8 DEF WrittenRows
<1>4. CASE AttributesOf("alpha2") = {}
  <2>1. rows' = rows
    BY <1>4 DEF NationalityWrites
  <2>2. DigestRows' /\ ValidityRows' /\ PayloadRows' /\ RangeRows' /\ BirthRows'
    BY <1>1, <1>2, <2>1, RowsKept
  <2>3. CountryRows'
    BY <1>1, <1>4 DEF CountryRows, AttributesOf, Attributes
  <2> QED BY <1>1, <1>2, <2>1, <2>2, <2>3 DEF WrittenRows
<1> QED BY <1>3, <1>4

LEMMA MacRowsWritten ==
    ASSUME IInv, MacWrites
    PROVE  WrittenRows' /\ DOMAIN rows' = RowFields
<1>1. stage = "mac" /\ stage' = "verify" /\ statement' = statement
  BY DEF MacWrites, Wrote
<1>2. /\ DOMAIN rows = RowFields
      /\ DigestRows /\ ValidityRows /\ PayloadRows /\ RangeRows /\ BirthRows /\ CountryRows
  BY <1>1 DEF IInv, WrittenRows
<1>3. CASE statement.build = "coprocessor"
  <2>1. PICK z \in RowChoices(statement.issuerHash, CellsOf(DigestLen)),
             x \in RowChoices(statement.deviceKey[1], CellsOf(DigestLen)),
             y \in RowChoices(statement.deviceKey[2], CellsOf(DigestLen)) :
            rows' = [rows EXCEPT !.mac = <<z, x, y>>]
    BY <1>3 DEF MacWrites
  <2>2. IsText(x) /\ IsText(y)
    <3>1. PICK policy, build, revocation : Extraction(credential, policy, build, revocation)
      BY DEF IInv, StatementIsExtracted
    <3>2. IsText(statement.deviceKey[1]) /\ IsText(statement.deviceKey[2])
      BY <3>1, StatementHasShape DEF StatementShape
    <3> QED BY <2>1, <3>2, CellsAreText DEF RowChoices
  <2>3. /\ rows'.mac = <<z, x, y>> /\ DOMAIN rows' = RowFields
        /\ rows'.digests = rows.digests /\ rows'.from = rows.from /\ rows'.until = rows.until
        /\ rows'.payload = rows.payload /\ rows'.range = rows.range
        /\ rows'.birth = rows.birth /\ rows'.country = rows.country
    BY <1>2, <2>1 DEF RowFields
  <2>4. /\ DigestRows' /\ ValidityRows' /\ PayloadRows' /\ RangeRows' /\ BirthRows'
        /\ CountryRows'
    BY <1>1, <1>2, <2>3, RowsKept
  <2>5. MacRows'
    BY <2>2, <2>3 DEF MacRows
  <2> QED BY <1>1, <2>3, <2>4, <2>5 DEF WrittenRows
<1>4. CASE statement.build # "coprocessor"
  <2>1. rows' = rows
    BY <1>4 DEF MacWrites
  <2>2. /\ DigestRows' /\ ValidityRows' /\ PayloadRows' /\ RangeRows' /\ BirthRows'
        /\ CountryRows'
    BY <1>1, <1>2, <2>1, RowsKept
  <2>3. MacRows'
    BY <1>1, <1>4 DEF MacRows
  <2> QED BY <1>1, <1>2, <2>1, <2>2, <2>3 DEF WrittenRows
<1> QED BY <1>3, <1>4

(* An accepted proof keeps the promises.                                      *)
LEMMA VerdictKeepsPromises ==
    ASSUME IInv, Verify
    PROVE  Promises'
<1>1. stage = "verify" /\ UNCHANGED <<statement, preimages, rows>>
  BY DEF Verify
<1>2. AllRows
  BY <1>1 DEF IInv, WrittenRows, AllRows
<1>3. PICK policy, build, revocation : Extraction(credential, policy, build, revocation)
  BY DEF IInv, StatementIsExtracted
<1>4. StatementShape /\ PolicyShape /\ statement.build \in {"legacy", "coprocessor"}
  BY <1>3, StatementHasShape
<1>5. CASE ~ Balanced
  <2>1. ~ Accepted'
    BY <1>5 DEF Verify, Accepted
  <2> QED BY <2>1 DEF Promises, ItemsAreIssued, PredicatesHold, ValidOnPolicyDate,
                      SignedByDeviceKey, NotRevoked
<1>6. CASE Balanced
  <2>1. ItemsAreIssued'
    BY <1>1, <1>2, <1>4, <1>6, BalancedItems, ItemsPromised
  <2>2. PredicatesHold'
    BY <1>1, <1>2, <1>4, <1>6, BalancedPredicates
       DEF PredicatesHold, AttributesOf, Attributes, ValueLen, Bytes, Item, BirthRow, CountryRow
  <2>3. ValidOnPolicyDate'
    <3> DEFINE from  == Bytes(Issuer, statement.from.offset, TextLen)
               until == Bytes(Issuer, statement.until.offset, TextLen)
    <3>1. from' = from /\ until' = until
      BY <1>1 DEF Bytes, Issuer
    <3>2. /\ ReadsLocated(Issuer, statement.from, from)
          /\ ReadsLocated(Issuer, statement.until, until)
          /\ IsDateText(from) /\ NotLater(TextDate(from), statement.policy.date)
          /\ IsDateText(until) /\ NotLater(statement.policy.date, TextDate(until))
      BY <1>2, <1>4, <1>6, BalancedDates
    <3>3. /\ ReadsLocated(Issuer, statement.from, from)'
          /\ ReadsLocated(Issuer, statement.until, until)'
      BY ZenonT(40), <1>1, <3>2 DEF ReadsLocated, Reads, Bytes, Issuer
    <3>4. /\ IsDateText(from)' /\ NotLater(TextDate(from), statement.policy.date)'
          /\ IsDateText(until)' /\ NotLater(statement.policy.date, TextDate(until))'
      <4> HIDE DEF from, until
      <4> QED BY <1>1, <3>1, <3>2
    <3> QED BY <3>3, <3>4, Zenon DEF ValidOnPolicyDate
  <2>4. SignedByDeviceKey'
    BY <1>1, <1>2, <1>4, <1>6, BalancedKey
       DEF SignedByDeviceKey, ProvenIssuerHash, ProvenDeviceKey, ReadsLocated, Reads, Bytes,
           Issuer, Device
  <2>5. NotRevoked'
    BY ZenonT(40), <1>1, <1>2, <1>4, <1>6, BalancedRange
       DEF NotRevoked, HasRange, HasSignature, Reads, Bytes, Issuer, Mso, RevocationMessage
  <2> QED BY <2>1, <2>2, <2>3, <2>4, <2>5 DEF Promises
<1> QED BY <1>5, <1>6

(* Before its verdict, a run promises nothing.                                *)
LEMMA OpenPromises ==
    ASSUME verdict' # "accepted"
    PROVE  Promises'
BY DEF Accepted, Promises, ItemsAreIssued, PredicatesHold, ValidOnPolicyDate, SignedByDeviceKey,
       NotRevoked

LEMMA NextIInv == IInv /\ [Next]_vars => IInv'
<1> SUFFICES ASSUME IInv, [Next]_vars PROVE IInv'
  OBVIOUS
<1>1. CASE UNCHANGED vars
  <2>1. UNCHANGED <<credential, statement, prover, preimages, rows, stage, verdict>>
    BY <1>1 DEF vars
  <2>2. TypeOK'
    BY <2>1, SourcesKept DEF IInv, TypeOK
  <2>3. StatementIsExtracted'
    BY <2>1, StatementKept DEF IInv
  <2>4. WrittenRows' /\ DOMAIN rows' = RowFields
    BY <2>1, RowsKept DEF IInv, WrittenRows
  <2>5. Promises'
    BY <2>1, PromisesKept DEF IInv, Accepted
  <2> QED BY <2>2, <2>3, <2>4, <2>5 DEF IInv
<1>2. CASE Next
  <2>1. TypeOK'
    BY SMTT(40), <1>2, NextTypeOK DEF IInv
  <2>2. UNCHANGED <<credential, statement>>
    BY <1>2 DEF Next, ShaWrites, WindowBindWrites, ValidityWrites, PayloadBindWrites,
                RangeWrites, AgeWrites, NationalityWrites, MacWrites, Refuses, Verify, Wrote
  <2>3. StatementIsExtracted'
    BY <2>2, StatementKept DEF IInv
  <2>4. CASE \E s \in Sources : ShaWrites(s)
    <3>1. stage' \in {"sha", "window_bind"} /\ rows' = rows /\ verdict' = verdict
      BY <2>4 DEF ShaWrites
    <3>2. stage' # "end" /\ verdict' # "accepted"
      BY <2>1, <3>1 DEF TypeOK
    <3>3. WrittenRows' /\ DOMAIN rows' = RowFields
      BY <3>1 DEF IInv, WrittenRows
    <3> QED BY <2>1, <2>3, <3>2, <3>3, OpenPromises DEF IInv
  <2>5. ASSUME NEW name \in {"window_bind", "validity", "payload_bind", "revocation_range",
                             "age", "nationality", "mac"},
               NEW next, Wrote(name, next), WrittenRows', DOMAIN rows' = RowFields
        PROVE  IInv'
    <3>1. verdict' # "accepted"
      BY <2>5 DEF IInv, TypeOK, Wrote
    <3> QED BY <2>1, <2>3, <2>5, <3>1, OpenPromises DEF IInv
  <2>6. CASE WindowBindWrites
    BY <2>5, <2>6, WindowBindRows DEF WindowBindWrites
  <2>7. CASE ValidityWrites
    BY <2>5, <2>7, ValidityRowsWritten DEF ValidityWrites
  <2>8. CASE PayloadBindWrites
    BY <2>5, <2>8, PayloadRowsWritten DEF PayloadBindWrites
  <2>9. CASE RangeWrites
    <3>1. Wrote("revocation_range", "age")
      BY <2>9 DEF RangeWrites
    <3> QED BY <2>5, <2>9, <3>1, RangeRowsWritten
  <2>10. CASE AgeWrites
    BY <2>5, <2>10, BirthRowsWritten DEF AgeWrites
  <2>11. CASE NationalityWrites
    BY <2>5, <2>11, CountryRowsWritten DEF NationalityWrites
  <2>12. CASE MacWrites
    BY <2>5, <2>12, MacRowsWritten DEF MacWrites
  <2>13. CASE Refuses
    <3>1. stage' = "end" /\ rows' = rows /\ verdict' = "refused"
      BY <2>13 DEF Refuses
    <3>2. WrittenRows' /\ DOMAIN rows' = RowFields
      BY <3>1 DEF IInv, WrittenRows
    <3>3. Promises'
      BY <3>1, OpenPromises
    <3> QED BY <2>1, <2>3, <3>2, <3>3 DEF IInv
  <2>14. CASE Verify
    <3>1. stage' = "end" /\ rows' = rows
      BY <2>14 DEF Verify
    <3>2. WrittenRows' /\ DOMAIN rows' = RowFields
      BY <3>1 DEF IInv, WrittenRows
    <3> QED BY <2>1, <2>3, <2>14, <3>2, VerdictKeepsPromises DEF IInv
  <2> QED BY <1>2, <2>4, <2>6, <2>7, <2>8, <2>9, <2>10, <2>11, <2>12, <2>13, <2>14 DEF Next
<1> QED BY <1>1, <1>2

LEMMA Inductive == Spec => []IInv
BY InitIInv, NextIInv, PTL DEF Spec

-----------------------------------------------------------------------------
(* The theorems, for any number of credentials, policies and messages, any    *)
(* hash function and any lengths.                                             *)

(* Every run of prove_mdoc_circuit and verify_mdoc_circuit goes through the   *)
(* stages in order, and only the end gives a verdict.                         *)
THEOREM TypeIsCorrect == Spec => []TypeOK
<1>1. IInv => TypeOK
  BY DEF IInv
<1> QED BY <1>1, Inductive, PTL

(* The window rows and the exposed windows tie every disclosed item to a      *)
(* digest that the issuer signed, whatever the prover hashes and fills in.    *)
THEOREM DisclosedItemsAreIssued == Spec => []ItemsAreIssued
<1>1. IInv => ItemsAreIssued
  BY DEF IInv, Promises
<1> QED BY <1>1, Inductive, PTL

(* The age and nationality rows speak about the disclosed items.              *)
THEOREM PredicatesAreOfItems == Spec => []PredicatesHold
<1>1. IInv => PredicatesHold
  BY DEF IInv, Promises
<1> QED BY <1>1, Inductive, PTL

(* The comparison of packed dates modulo the M31 prime orders calendar dates, *)
(* and the dates compared are the issuer's.                                   *)
THEOREM PolicyDateIsCovered == Spec => []ValidOnPolicyDate
<1>1. IInv => ValidOnPolicyDate
  BY DEF IInv, Promises
<1> QED BY <1>1, Inductive, PTL

(* In both builds the signed hashes and the device's key are the bound ones.  *)
THEOREM DeviceKeyIsIssued == Spec => []SignedByDeviceKey
<1>1. IInv => SignedByDeviceKey
  BY DEF IInv, Promises
<1> QED BY <1>1, Inductive, PTL

(* The id between the revocation neighbours is derived from the issuer's MSO. *)
THEOREM RevocationRangeIsBound == Spec => []NotRevoked
<1>1. IInv => NotRevoked
  BY DEF IInv, Promises
<1> QED BY <1>1, Inductive, PTL

-----------------------------------------------------------------------------
(* Nothing refuses an honest proof. Every source exposes at most one window   *)
(* of a field and is asked at most once for it; every window is asked for,    *)
(* and what is asked for is there. Then every tuple is yielded once and       *)
(* required once, and the sum is zero.                                        *)

Fits(u, w) ==
    /\ w.field = u.field /\ w.len = Len(u.cells)
    /\ \A j \in 1 .. w.len : preimages[u.source][w.offset + j] = u.cells[j]

WindowsAreUnique ==
    \A s \in Sources : \A w, x \in Exposure(s) : w.field = x.field => w = x
UsesAreUnique ==
    \A u, v \in FieldUses : u.source = v.source /\ u.field = v.field => u = v
UsesAreSupplied ==
    \A u \in FieldUses : u.source \in Sources /\ \E w \in Exposure(u.source) : Fits(u, w)
WindowsAreUsed ==
    \A s \in Sources : \A w \in Exposure(s) :
        \E u \in FieldUses : u.source = s /\ u.field = w.field

LEMMA OneOrNone ==
    ASSUME NEW X, NEW Y, \A x, y \in X : x = y, \A x, y \in Y : x = y, X # {} \/ Y # {},
           X # {} => Y # {}, Y # {} => X # {}
    PROVE  Cardinality(X) = Cardinality(Y)
<1>1. PICK x \in X : TRUE
  OBVIOUS
<1>2. PICK y \in Y : TRUE
  OBVIOUS
<1>3. X = {x} /\ Y = {y}
  BY <1>1, <1>2
<1> QED BY <1>3, FS_Singleton

LEMMA YieldSiteIs ==
    ASSUME NEW y \in YieldSites
    PROVE  \E s \in Sources : \E w \in Exposure(s) : \E j \in 1 .. w.len :
              /\ y = <<s, w, j>>
              /\ YieldTuple(y) = <<s, w.field, j, preimages[s][w.offset + j]>>
<1>1. PICK s \in Sources : y \in UNION {{s} \X {w} \X (1 .. w.len) : w \in Exposure(s)}
  BY DEF YieldSites
<1>2. PICK w \in Exposure(s) : y \in {s} \X {w} \X (1 .. w.len)
  BY <1>1
<1>3. PICK j \in 1 .. w.len : y = <<s, w, j>>
  BY <1>2
<1>4. YieldTuple(y) = <<s, w.field, j, preimages[s][w.offset + j]>>
  BY <1>3 DEF YieldTuple
<1> QED BY <1>3, <1>4

LEMMA UseSiteIs ==
    ASSUME NEW x \in UseSites
    PROVE  \E u \in FieldUses : \E j \in 1 .. Len(u.cells) :
              x = <<u, j>> /\ UseTuple(x) = <<u.source, u.field, j, u.cells[j]>>
<1>1. PICK u \in FieldUses : x \in {u} \X (1 .. Len(u.cells))
  BY DEF UseSites
<1>2. PICK j \in 1 .. Len(u.cells) : x = <<u, j>>
  BY <1>1
<1>3. UseTuple(x) = <<u.source, u.field, j, u.cells[j]>>
  BY <1>2 DEF UseTuple
<1> QED BY <1>2, <1>3

LEMMA FieldsCancel ==
    ASSUME WindowsAreUnique, UsesAreUnique, UsesAreSupplied, WindowsAreUsed
    PROVE  FieldsBalance
<1> SUFFICES ASSUME NEW t \in {YieldTuple(y) : y \in YieldSites} \cup {UseTuple(x) : x \in UseSites}
             PROVE  Cardinality({y \in YieldSites : YieldTuple(y) = t})
                        = Cardinality({x \in UseSites : UseTuple(x) = t})
  BY DEF FieldsBalance
<1> DEFINE Y == {y \in YieldSites : YieldTuple(y) = t}
           X == {x \in UseSites : UseTuple(x) = t}
<1>1. ASSUME NEW y \in Y, NEW z \in Y PROVE y = z
  <2>1. PICK s \in Sources : \E w \in Exposure(s) : \E j \in 1 .. w.len :
            y = <<s, w, j>> /\ t = <<s, w.field, j, preimages[s][w.offset + j]>>
    BY YieldSiteIs
  <2>2. PICK w \in Exposure(s) : \E j \in 1 .. w.len :
            y = <<s, w, j>> /\ t = <<s, w.field, j, preimages[s][w.offset + j]>>
    BY <2>1
  <2>3. PICK j \in 1 .. w.len :
            y = <<s, w, j>> /\ t = <<s, w.field, j, preimages[s][w.offset + j]>>
    BY <2>2
  <2>4. PICK r \in Sources : \E v \in Exposure(r) : \E k \in 1 .. v.len :
            z = <<r, v, k>> /\ t = <<r, v.field, k, preimages[r][v.offset + k]>>
    BY YieldSiteIs
  <2>5. PICK v \in Exposure(r) : \E k \in 1 .. v.len :
            z = <<r, v, k>> /\ t = <<r, v.field, k, preimages[r][v.offset + k]>>
    BY <2>4
  <2>6. PICK k \in 1 .. v.len :
            z = <<r, v, k>> /\ t = <<r, v.field, k, preimages[r][v.offset + k]>>
    BY <2>5
  <2>7. s = r /\ w.field = v.field /\ j = k
    BY <2>3, <2>6
  <2>8. w = v
    BY <2>7 DEF WindowsAreUnique
  <2> QED BY <2>3, <2>6, <2>7, <2>8
<1>2. ASSUME NEW x \in X, NEW z \in X PROVE x = z
  <2>1. PICK u \in FieldUses : \E j \in 1 .. Len(u.cells) :
            x = <<u, j>> /\ t = <<u.source, u.field, j, u.cells[j]>>
    BY UseSiteIs
  <2>2. PICK j \in 1 .. Len(u.cells) :
            x = <<u, j>> /\ t = <<u.source, u.field, j, u.cells[j]>>
    BY <2>1
  <2>3. PICK v \in FieldUses : \E k \in 1 .. Len(v.cells) :
            z = <<v, k>> /\ t = <<v.source, v.field, k, v.cells[k]>>
    BY UseSiteIs
  <2>4. PICK k \in 1 .. Len(v.cells) :
            z = <<v, k>> /\ t = <<v.source, v.field, k, v.cells[k]>>
    BY <2>3
  <2>5. u.source = v.source /\ u.field = v.field /\ j = k
    BY <2>2, <2>4
  <2>6. u = v
    BY <2>5 DEF UsesAreUnique
  <2> QED BY <2>2, <2>4, <2>5, <2>6
<1>3. ASSUME NEW y \in Y PROVE X # {}
  <2>1. PICK s \in Sources : \E w \in Exposure(s) : \E j \in 1 .. w.len :
            y = <<s, w, j>> /\ t = <<s, w.field, j, preimages[s][w.offset + j]>>
    BY YieldSiteIs
  <2>2. PICK w \in Exposure(s) : \E j \in 1 .. w.len :
            y = <<s, w, j>> /\ t = <<s, w.field, j, preimages[s][w.offset + j]>>
    BY <2>1
  <2>3. PICK j \in 1 .. w.len :
            y = <<s, w, j>> /\ t = <<s, w.field, j, preimages[s][w.offset + j]>>
    BY <2>2
  <2>4. PICK u \in FieldUses : u.source = s /\ u.field = w.field
    BY DEF WindowsAreUsed
  <2>5. PICK x \in Exposure(u.source) : Fits(u, x)
    BY DEF UsesAreSupplied
  <2>6. x = w
    BY <2>4, <2>5 DEF WindowsAreUnique, Fits
  <2>7. w.len = Len(u.cells) /\ preimages[s][w.offset + j] = u.cells[j]
    BY <2>4, <2>5, <2>6 DEF Fits
  <2>8. <<u, j>> \in UseSites
    BY <2>7 DEF UseSites
  <2>9. UseTuple(<<u, j>>) = t
    BY <2>3, <2>4, <2>7 DEF UseTuple
  <2> QED BY <2>8, <2>9
<1>4. ASSUME NEW x \in X PROVE Y # {}
  <2>1. PICK u \in FieldUses : \E j \in 1 .. Len(u.cells) :
            x = <<u, j>> /\ t = <<u.source, u.field, j, u.cells[j]>>
    BY UseSiteIs
  <2>2. PICK j \in 1 .. Len(u.cells) :
            x = <<u, j>> /\ t = <<u.source, u.field, j, u.cells[j]>>
    BY <2>1
  <2>3. u.source \in Sources
    BY DEF UsesAreSupplied
  <2>4. PICK w \in Exposure(u.source) : Fits(u, w)
    BY DEF UsesAreSupplied
  <2>5. w.field = u.field /\ w.len = Len(u.cells)
        /\ preimages[u.source][w.offset + j] = u.cells[j]
    BY <2>4 DEF Fits
  <2>6. <<u.source, w, j>> \in YieldSites
    <3>1. <<u.source, w, j>> \in {u.source} \X {w} \X (1 .. w.len)
      BY <2>5
    <3> QED BY <2>3, <3>1 DEF YieldSites
  <2>7. YieldTuple(<<u.source, w, j>>) = t
    BY <2>2, <2>5 DEF YieldTuple
  <2> QED BY <2>6, <2>7
<1>5. X # {} \/ Y # {}
  OBVIOUS
<1> HIDE DEF X, Y
<1>6. Cardinality(X) = Cardinality(Y)
  BY <1>1, <1>2, <1>3, <1>4, <1>5, OneOrNone
<1> QED BY <1>6 DEF X, Y

DigestsMatch ==
    /\ \A d, e \in DigestUses : d.source = e.source => d = e
    /\ \A d \in DigestUses : d.source \in Sources /\ d.digest = Hash(preimages[d.source])
    /\ \A s \in Sources : \E d \in DigestUses : d.source = s

LEMMA DigestsCancel ==
    ASSUME DigestsMatch
    PROVE  DigestsBalance
<1> SUFFICES ASSUME NEW t \in {<<s, Hash(preimages[s])>> : s \in Sources}
                                 \cup {<<d.source, d.digest>> : d \in DigestUses}
             PROVE  Cardinality(YieldedDigests(t)) = Cardinality(UsedDigests(t))
  BY DEF DigestsBalance
<1>1. \A r, s \in YieldedDigests(t) : r = s
  BY DEF YieldedDigests
<1>2. \A d, e \in UsedDigests(t) : d = e
  BY DEF UsedDigests, DigestsMatch
<1>3. ASSUME NEW s \in YieldedDigests(t) PROVE UsedDigests(t) # {}
  <2>1. s \in Sources /\ t = <<s, Hash(preimages[s])>>
    BY DEF YieldedDigests
  <2>2. PICK d \in DigestUses : d.source = s
    BY <2>1 DEF DigestsMatch
  <2>3. d.digest = Hash(preimages[s])
    BY <2>2 DEF DigestsMatch
  <2> QED BY <2>1, <2>2, <2>3 DEF UsedDigests
<1>4. ASSUME NEW d \in UsedDigests(t) PROVE YieldedDigests(t) # {}
  <2>1. d \in DigestUses /\ t = <<d.source, d.digest>>
    BY DEF UsedDigests
  <2>2. d.source \in Sources /\ d.digest = Hash(preimages[d.source])
    BY <2>1 DEF DigestsMatch
  <2> QED BY <2>1, <2>2 DEF YieldedDigests
<1>5. YieldedDigests(t) # {} \/ UsedDigests(t) # {}
  BY DEF YieldedDigests, UsedDigests
<1> QED BY <1>1, <1>2, <1>3, <1>4, <1>5, OneOrNone

(* What every window is, given its source and its field.                      *)
LEMMA IssuerWindowIs ==
    ASSUME AttributesShape, NEW w \in Exposure(Issuer)
    PROVE  /\ \A i \in Attributes :
                 /\ w.field = DigestField(i)
                        => w = Value(DigestField(i), statement.attributes[i].digest, DigestLen)
                 /\ w.field = DigestAnchorField(i)
                        => w = Anchor(DigestAnchorField(i), statement.attributes[i].digest)
           /\ w.field = DEVICE_KEY_X => w = Value(DEVICE_KEY_X, statement.keyX, DigestLen)
           /\ w.field = DEVICE_KEY_Y => w = Value(DEVICE_KEY_Y, statement.keyY, DigestLen)
           /\ w.field = VALID_FROM => w = Value(VALID_FROM, statement.from, TextLen)
           /\ w.field = VALID_UNTIL => w = Value(VALID_UNTIL, statement.until, TextLen)
           /\ w.field = DEVICE_KEY_X_ANCHOR => w = Anchor(DEVICE_KEY_X_ANCHOR, statement.keyX)
           /\ w.field = DEVICE_KEY_Y_ANCHOR => w = Anchor(DEVICE_KEY_Y_ANCHOR, statement.keyY)
           /\ w.field = VALID_FROM_ANCHOR => w = Anchor(VALID_FROM_ANCHOR, statement.from)
           /\ w.field = VALID_UNTIL_ANCHOR => w = Anchor(VALID_UNTIL_ANCHOR, statement.until)
           /\ w.field = MSO_PAYLOAD
                  => HasRange /\ w = Value(MSO_PAYLOAD, statement.payload, statement.payload.len)
           /\ \/ \E i \in Attributes : w.field \in {DigestField(i), DigestAnchorField(i)}
              \/ w.field \in {DEVICE_KEY_X, DEVICE_KEY_Y, VALID_FROM, VALID_UNTIL,
                              DEVICE_KEY_X_ANCHOR, DEVICE_KEY_Y_ANCHOR, VALID_FROM_ANCHOR,
                              VALID_UNTIL_ANCHOR, MSO_PAYLOAD}
<1> USE DEF DEVICE_KEY_X, DEVICE_KEY_Y, VALID_FROM, VALID_UNTIL, DEVICE_KEY_X_ANCHOR,
            DEVICE_KEY_Y_ANCHOR, VALID_FROM_ANCHOR, VALID_UNTIL_ANCHOR, MSO_PAYLOAD,
            DigestField, DigestAnchorField
<1>1. \A i \in Attributes : i \in 1 .. 4
  BY DEF AttributesShape, MAX_DISCLOSED_ATTRIBUTES
<1>2. w \in IssuerMsoExposure
  BY DEF Exposure, Issuer
<1>7. \A field, located, len : Value(field, located, len).field = field
                            /\ Anchor(field, located).field = field
  BY DEF Value, Anchor, Window
<1>3. CASE w \in {Value(DigestField(i), statement.attributes[i].digest, DigestLen) :
                    i \in Attributes}
  <2>1. PICK i \in Attributes :
            w = Value(DigestField(i), statement.attributes[i].digest, DigestLen)
    BY <1>3
  <2>2. w.field = DigestField(i) /\ i \in 1 .. 4
    BY <1>1, <1>7, <2>1
  <2>3. \A k \in Attributes : w.field = DigestField(k) => k = i
    BY <1>1, <2>2
  <2> QED BY <1>1, <2>1, <2>2, <2>3
<1>4. CASE w \in {Anchor(DigestAnchorField(i), statement.attributes[i].digest) :
                    i \in Attributes}
  <2>1. PICK i \in Attributes :
            w = Anchor(DigestAnchorField(i), statement.attributes[i].digest)
    BY <1>4
  <2>2. w.field = DigestAnchorField(i) /\ i \in 1 .. 4
    BY <1>1, <1>7, <2>1
  <2>3. \A k \in Attributes : w.field = DigestAnchorField(k) => k = i
    BY <1>1, <2>2
  <2> QED BY <1>1, <2>1, <2>2, <2>3
<1>5. CASE w \in {Value(DEVICE_KEY_X, statement.keyX, DigestLen),
                  Value(DEVICE_KEY_Y, statement.keyY, DigestLen),
                  Value(VALID_FROM, statement.from, TextLen),
                  Value(VALID_UNTIL, statement.until, TextLen),
                  Anchor(DEVICE_KEY_X_ANCHOR, statement.keyX),
                  Anchor(DEVICE_KEY_Y_ANCHOR, statement.keyY),
                  Anchor(VALID_FROM_ANCHOR, statement.from),
                  Anchor(VALID_UNTIL_ANCHOR, statement.until)}
  BY SMTT(40), <1>1, <1>5, <1>7
<1>6. CASE HasRange /\ w = Value(MSO_PAYLOAD, statement.payload, statement.payload.len)
  BY <1>1, <1>6, <1>7
<1> QED BY <1>2, <1>3, <1>4, <1>5, <1>6 DEF IssuerMsoExposure

LEMMA ItemWindowIs ==
    ASSUME AttributesShape, NEW i \in Attributes, NEW w \in Exposure(Item(i))
    PROVE  LET a == statement.attributes[i] IN
           /\ w.field = ElementField(i) => w = Value(ElementField(i), a.name, Len(a.element))
           /\ w.field = ElementAnchorField(i) => w = Anchor(ElementAnchorField(i), a.name)
           /\ w.field = DOB
                  => a.mode = "age" /\ w = Window(DOB, a.valueOffset, Len(a.value))
           /\ w.field = NATIONALITY
                  => a.mode = "alpha2" /\ w = Window(NATIONALITY, a.valueOffset, Len(a.value))
           /\ w.field = ValueField(i)
                  => a.mode = "equality" /\ w = Window(ValueField(i), a.valueOffset, Len(a.value))
           /\ w.field = ValueHeadField(i)
                  => a.mode = "equality" /\ w = Window(ValueHeadField(i), a.valueOffset, Len(a.head))
           /\ w.field \in {ElementField(i), ElementAnchorField(i), DOB, NATIONALITY,
                           ValueField(i), ValueHeadField(i)}
<1> USE DEF DOB, NATIONALITY, ElementField, ElementAnchorField, ValueField, ValueHeadField,
            Value, Anchor, Window
<1>1. i \in 1 .. 4
  BY DEF AttributesShape, MAX_DISCLOSED_ATTRIBUTES
<1>2. w \in AttributeExposure(i)
  BY DEF Exposure, Item
<1>3. statement.attributes[i].mode \in {"age", "alpha2", "equality"}
  BY DEF AttributesShape, AttributeShape
<1> QED BY SMTT(40), <1>1, <1>2, <1>3 DEF AttributeExposure

LEMMA SourcesAre ==
    ASSUME NEW s \in Sources
    PROVE  \/ s = Issuer
           \/ s = Device
           \/ \E i \in Attributes : s = Item(i)
           \/ HasRange /\ s = Mso
           \/ HasSignature /\ s = RevocationMessage
BY DEF Sources

LEMMA SourcesDiffer ==
    /\ Issuer # Device /\ Issuer # Mso /\ Issuer # RevocationMessage
    /\ Device # Mso /\ Device # RevocationMessage /\ Mso # RevocationMessage
    /\ \A i : Item(i) # Issuer /\ Item(i) # Device /\ Item(i) # Mso /\ Item(i) # RevocationMessage
    /\ \A i, j : Item(i) = Item(j) => i = j
BY DEF Issuer, Device, Mso, RevocationMessage, Item

LEMMA SmallExposures ==
    /\ Exposure(Device) = {}
    /\ Exposure(Mso) = {Window(MSO_PAYLOAD, 0, statement.payload.len)}
    /\ Exposure(RevocationMessage) = {Window(REVOCATION_MESSAGE, 0, RevocationMessageLen)}
BY DEF Exposure, Device, Mso, RevocationMessage

LEMMA WindowsUnique ==
    ASSUME AttributesShape
    PROVE  WindowsAreUnique
<1> SUFFICES ASSUME NEW s \in Sources, NEW w \in Exposure(s), NEW x \in Exposure(s),
                    w.field = x.field
             PROVE  w = x
  BY DEF WindowsAreUnique
<1>1. CASE s = Issuer
  <2>1. w \in Exposure(Issuer) /\ x \in Exposure(Issuer)
    BY <1>1
  <2>2. CASE \E i \in Attributes : w.field \in {DigestField(i), DigestAnchorField(i)}
    <3>1. PICK i \in Attributes : w.field \in {DigestField(i), DigestAnchorField(i)}
      BY <2>2
    <3>2. CASE w.field = DigestField(i)
      <4>1. \A v \in Exposure(Issuer) :
               v.field = DigestField(i)
                   => v = Value(DigestField(i), statement.attributes[i].digest, DigestLen)
        BY IssuerWindowIs
      <4> QED BY <2>1, <3>2, <4>1
    <3>3. CASE w.field = DigestAnchorField(i)
      <4>1. \A v \in Exposure(Issuer) :
               v.field = DigestAnchorField(i)
                   => v = Anchor(DigestAnchorField(i), statement.attributes[i].digest)
        BY IssuerWindowIs
      <4> QED BY <2>1, <3>3, <4>1
    <3> QED BY <3>1, <3>2, <3>3
  <2>3. CASE w.field \in {DEVICE_KEY_X, DEVICE_KEY_Y, VALID_FROM, VALID_UNTIL,
                          DEVICE_KEY_X_ANCHOR, DEVICE_KEY_Y_ANCHOR, VALID_FROM_ANCHOR,
                          VALID_UNTIL_ANCHOR, MSO_PAYLOAD}
    <3>1. \A v \in {w, x} :
           /\ v.field = DEVICE_KEY_X => v = Value(DEVICE_KEY_X, statement.keyX, DigestLen)
           /\ v.field = DEVICE_KEY_Y => v = Value(DEVICE_KEY_Y, statement.keyY, DigestLen)
           /\ v.field = VALID_FROM => v = Value(VALID_FROM, statement.from, TextLen)
           /\ v.field = VALID_UNTIL => v = Value(VALID_UNTIL, statement.until, TextLen)
           /\ v.field = DEVICE_KEY_X_ANCHOR => v = Anchor(DEVICE_KEY_X_ANCHOR, statement.keyX)
           /\ v.field = DEVICE_KEY_Y_ANCHOR => v = Anchor(DEVICE_KEY_Y_ANCHOR, statement.keyY)
           /\ v.field = VALID_FROM_ANCHOR => v = Anchor(VALID_FROM_ANCHOR, statement.from)
           /\ v.field = VALID_UNTIL_ANCHOR => v = Anchor(VALID_UNTIL_ANCHOR, statement.until)
           /\ v.field = MSO_PAYLOAD
                  => v = Value(MSO_PAYLOAD, statement.payload, statement.payload.len)
      <4>1. \A v \in {w, x} : v \in Exposure(Issuer)
        BY <2>1
      <4> QED BY <4>1, IssuerWindowIs
    <3> QED BY <2>3, <3>1
  <2> QED BY <2>1, <2>2, <2>3, IssuerWindowIs
<1>2. CASE \E i \in Attributes : s = Item(i)
  <2>1. PICK i \in Attributes : s = Item(i)
    BY <1>2
  <2>2. w \in Exposure(Item(i)) /\ x \in Exposure(Item(i))
    BY <2>1
  <2>3. \A v \in Exposure(Item(i)) :
           LET a == statement.attributes[i] IN
           /\ v.field = ElementField(i) => v = Value(ElementField(i), a.name, Len(a.element))
           /\ v.field = ElementAnchorField(i) => v = Anchor(ElementAnchorField(i), a.name)
           /\ v.field = DOB => v = Window(DOB, a.valueOffset, Len(a.value))
           /\ v.field = NATIONALITY => v = Window(NATIONALITY, a.valueOffset, Len(a.value))
           /\ v.field = ValueField(i) => v = Window(ValueField(i), a.valueOffset, Len(a.value))
           /\ v.field = ValueHeadField(i)
                  => v = Window(ValueHeadField(i), a.valueOffset, Len(a.head))
           /\ v.field \in {ElementField(i), ElementAnchorField(i), DOB, NATIONALITY,
                           ValueField(i), ValueHeadField(i)}
    BY ItemWindowIs
  <2> QED BY <2>2, <2>3
<1>3. CASE s \in {Device, Mso, RevocationMessage}
  BY <1>3, SmallExposures
<1> QED BY <1>1, <1>2, <1>3, SourcesAre

(* The uses again, by the source they ask.                                    *)
DigestUseOf(i) == Use("window_bind", Issuer, DigestField(i), rows.digests[i])
DigestAnchorUseOf(i) ==
    Use("window_bind", Issuer, DigestAnchorField(i), statement.attributes[i].digest.anchor)
KeyUse(field, k) ==
    IF statement.build = "legacy"
    THEN Use("window_bind", Issuer, field, statement.deviceKey[k])
    ELSE Use("mac", Issuer, field, rows.mac[k + 1])
FixedUses ==
    {Use("window_bind", Issuer, DEVICE_KEY_X_ANCHOR, statement.keyX.anchor),
     Use("window_bind", Issuer, DEVICE_KEY_Y_ANCHOR, statement.keyY.anchor),
     Use("window_bind", Issuer, VALID_FROM_ANCHOR, statement.from.anchor),
     Use("window_bind", Issuer, VALID_UNTIL_ANCHOR, statement.until.anchor),
     Use("validity", Issuer, VALID_FROM, rows.from),
     Use("validity", Issuer, VALID_UNTIL, rows.until),
     KeyUse(DEVICE_KEY_X, 1), KeyUse(DEVICE_KEY_Y, 2)}
PayloadUse(source) == Use("payload_bind", source, MSO_PAYLOAD, rows.payload)
SignedRange == rows.range.lo \o rows.range.hi \o statement.revocation.epoch
RangeUse == Use("revocation_range", RevocationMessage, REVOCATION_MESSAGE, SignedRange)

ItemUses(i) ==
    LET a == statement.attributes[i] IN
    {Use("window_bind", Item(i), ElementField(i), a.element),
     Use("window_bind", Item(i), ElementAnchorField(i), a.name.anchor)}
        \cup (IF a.mode = "equality"
              THEN {Use("window_bind", Item(i), ValueField(i), a.value),
                    Use("window_bind", Item(i), ValueHeadField(i), a.head)}
              ELSE {})
        \cup (IF a.mode = "age" THEN {Use("age", Item(i), DOB, rows.birth)} ELSE {})
        \cup (IF a.mode = "alpha2"
              THEN {Use("nationality", Item(i), NATIONALITY, rows.country)} ELSE {})

UseKinds(u) ==
    \/ \E i \in Attributes : u \in ItemUses(i) \/ u = DigestUseOf(i) \/ u = DigestAnchorUseOf(i)
    \/ u \in FixedUses
    \/ HasRange /\ u \in {PayloadUse(Issuer), PayloadUse(Mso)}
    \/ HasSignature /\ u = RangeUse

LEMMA UsesByKind ==
    ASSUME statement.build \in {"legacy", "coprocessor"}
    PROVE  \A u : u \in FieldUses <=> UseKinds(u)
<1> TAKE u
<1>1. u \in WindowBindUses \cup ValidityUses \cup MacUses \cup PredicateUses
         <=> \/ u \in FixedUses
             \/ \E i \in Attributes :
                   u \in ItemUses(i) \/ u = DigestUseOf(i) \/ u = DigestAnchorUseOf(i)
  <2>1. u \in WindowBindUses \cup ValidityUses \cup MacUses
           <=> \/ u \in FixedUses
               \/ \E i \in Attributes : u \in AttributeRows(i)
    BY SMTT(40) DEF WindowBindUses, ValidityUses, MacUses, FixedUses, KeyUse
  <2>2. u \in PredicateUses
           <=> \E i \in Attributes :
                  \/ statement.attributes[i].mode = "age" /\ u = Use("age", Item(i), DOB, rows.birth)
                  \/ statement.attributes[i].mode = "alpha2"
                        /\ u = Use("nationality", Item(i), NATIONALITY, rows.country)
    BY DEF PredicateUses
  <2>3. ASSUME NEW i \in Attributes
        PROVE  (u \in ItemUses(i) \/ u = DigestUseOf(i) \/ u = DigestAnchorUseOf(i))
                 <=> \/ u \in AttributeRows(i)
                     \/ statement.attributes[i].mode = "age"
                           /\ u = Use("age", Item(i), DOB, rows.birth)
                     \/ statement.attributes[i].mode = "alpha2"
                           /\ u = Use("nationality", Item(i), NATIONALITY, rows.country)
    BY DEF ItemUses, DigestUseOf, DigestAnchorUseOf, AttributeRows
  <2> QED BY <2>1, <2>2, <2>3
<1>2. u \in PayloadUses <=> HasRange /\ u \in {PayloadUse(Issuer), PayloadUse(Mso)}
  BY DEF PayloadUses, PayloadUse
<1>3. u \in RangeUses <=> HasSignature /\ u = RangeUse
  BY DEF RangeUses, RangeUse, SignedRange
<1> QED BY <1>1, <1>2, <1>3 DEF FieldUses, UseKinds

LEMMA UseParts ==
    \A by, source, field, cells :
        /\ Use(by, source, field, cells).source = source
        /\ Use(by, source, field, cells).field = field
        /\ Use(by, source, field, cells).cells = cells
BY DEF Use

LEMMA KeyUseParts ==
    \A field, k : KeyUse(field, k).source = Issuer /\ KeyUse(field, k).field = field
BY UseParts DEF KeyUse

LEMMA ItemUseIs ==
    ASSUME AttributesShape, NEW i \in Attributes, NEW u \in ItemUses(i)
    PROVE  LET a == statement.attributes[i] IN
           /\ u.source = Item(i)
           /\ u.field = ElementField(i)
                  => u = Use("window_bind", Item(i), ElementField(i), a.element)
           /\ u.field = ElementAnchorField(i)
                  => u = Use("window_bind", Item(i), ElementAnchorField(i), a.name.anchor)
           /\ u.field = DOB => a.mode = "age" /\ u = Use("age", Item(i), DOB, rows.birth)
           /\ u.field = NATIONALITY
                  => a.mode = "alpha2" /\ u = Use("nationality", Item(i), NATIONALITY, rows.country)
           /\ u.field = ValueField(i)
                  => a.mode = "equality" /\ u = Use("window_bind", Item(i), ValueField(i), a.value)
           /\ u.field = ValueHeadField(i)
                  => /\ a.mode = "equality"
                     /\ u = Use("window_bind", Item(i), ValueHeadField(i), a.head)
           /\ u.field \in {ElementField(i), ElementAnchorField(i), DOB, NATIONALITY,
                           ValueField(i), ValueHeadField(i)}
<1> USE DEF DOB, NATIONALITY, ElementField, ElementAnchorField, ValueField, ValueHeadField
<1>1. i \in 1 .. 4
  BY DEF AttributesShape, MAX_DISCLOSED_ATTRIBUTES
<1>2. statement.attributes[i].mode \in {"age", "alpha2", "equality"}
  BY DEF AttributesShape, AttributeShape
<1> QED BY SMTT(40), <1>1, <1>2, UseParts DEF ItemUses

FixedFields == {DEVICE_KEY_X, DEVICE_KEY_Y, VALID_FROM, VALID_UNTIL, DEVICE_KEY_X_ANCHOR,
                DEVICE_KEY_Y_ANCHOR, VALID_FROM_ANCHOR, VALID_UNTIL_ANCHOR}

LEMMA FixedUseIs ==
    ASSUME NEW u \in FixedUses
    PROVE  /\ u.source = Issuer /\ u.field \in FixedFields
           /\ \A v \in FixedUses : u.field = v.field => u = v
BY SMTT(60), UseParts, KeyUseParts
   DEF FixedUses, FixedFields, DEVICE_KEY_X, DEVICE_KEY_Y, VALID_FROM, VALID_UNTIL,
       DEVICE_KEY_X_ANCHOR, DEVICE_KEY_Y_ANCHOR, VALID_FROM_ANCHOR, VALID_UNTIL_ANCHOR

(* The fields of the issuer's uses are distinct.                              *)
LEMMA IssuerFieldsDiffer ==
    ASSUME AttributesShape
    PROVE  /\ \A i, j \in Attributes : /\ DigestField(i) = DigestField(j) => i = j
                                       /\ DigestAnchorField(i) = DigestAnchorField(j) => i = j
                                       /\ DigestField(i) # DigestAnchorField(j)
           /\ \A i \in Attributes : /\ DigestField(i) \notin FixedFields \cup {MSO_PAYLOAD}
                                    /\ DigestAnchorField(i) \notin FixedFields \cup {MSO_PAYLOAD}
           /\ MSO_PAYLOAD \notin FixedFields
<1>1. \A i \in Attributes : i \in 1 .. 4
  BY DEF AttributesShape, MAX_DISCLOSED_ATTRIBUTES
<1> QED BY SMTT(40), <1>1
        DEF FixedFields, DEVICE_KEY_X, DEVICE_KEY_Y, VALID_FROM, VALID_UNTIL,
            DEVICE_KEY_X_ANCHOR, DEVICE_KEY_Y_ANCHOR, VALID_FROM_ANCHOR, VALID_UNTIL_ANCHOR,
            MSO_PAYLOAD, DigestField, DigestAnchorField

LEMMA UseSourceIs ==
    ASSUME AttributesShape, NEW u, UseKinds(u)
    PROVE  /\ u.source = Issuer =>
                 \/ \E i \in Attributes : u = DigestUseOf(i) \/ u = DigestAnchorUseOf(i)
                 \/ u \in FixedUses
                 \/ u = PayloadUse(Issuer)
           /\ \A i \in Attributes : u.source = Item(i) => u \in ItemUses(i)
           /\ u.source = Mso => HasRange /\ u = PayloadUse(Mso)
           /\ u.source = RevocationMessage => HasSignature /\ u = RangeUse
           /\ \/ u.source \in {Issuer, Mso, RevocationMessage}
              \/ \E i \in Attributes : u.source = Item(i)
<1>1. \A i \in Attributes : u \in ItemUses(i) => u.source = Item(i)
  BY ItemUseIs
<1>2. \A i \in Attributes : u = DigestUseOf(i) \/ u = DigestAnchorUseOf(i) => u.source = Issuer
  BY UseParts DEF DigestUseOf, DigestAnchorUseOf
<1>3. u \in FixedUses => u.source = Issuer
  BY FixedUseIs
<1>4. \A s : u = PayloadUse(s) => u.source = s
  BY UseParts DEF PayloadUse
<1>5. u = RangeUse => u.source = RevocationMessage
  BY UseParts DEF RangeUse
<1>6. CASE \E i \in Attributes : u \in ItemUses(i)
  <2>1. PICK i \in Attributes : u \in ItemUses(i)
    BY <1>6
  <2>2. u.source = Item(i)
    BY <1>1, <2>1
  <2> QED BY <2>1, <2>2, SourcesDiffer
<1>7. CASE \E i \in Attributes : u = DigestUseOf(i) \/ u = DigestAnchorUseOf(i)
  <2>1. u.source = Issuer
    BY <1>2, <1>7
  <2> QED BY <1>7, <2>1, SourcesDiffer
<1>8. CASE u \in FixedUses
  BY <1>3, <1>8, SourcesDiffer
<1>9. CASE HasRange /\ u \in {PayloadUse(Issuer), PayloadUse(Mso)}
  BY <1>4, <1>9, SourcesDiffer
<1>10. CASE HasSignature /\ u = RangeUse
  BY <1>5, <1>10, SourcesDiffer
<1> QED BY <1>6, <1>7, <1>8, <1>9, <1>10 DEF UseKinds

LEMMA UsesUnique ==
    ASSUME AttributesShape, statement.build \in {"legacy", "coprocessor"}
    PROVE  UsesAreUnique
<1> SUFFICES ASSUME NEW u \in FieldUses, NEW v \in FieldUses,
                    u.source = v.source, u.field = v.field
             PROVE  u = v
  BY DEF UsesAreUnique
<1>1. UseKinds(u) /\ UseKinds(v)
  BY UsesByKind
<1>2. CASE u.source = Issuer
  <2>1. \A x \in {u, v} :
            \/ \E i \in Attributes : x = DigestUseOf(i) \/ x = DigestAnchorUseOf(i)
            \/ x \in FixedUses
            \/ x = PayloadUse(Issuer)
    BY <1>1, <1>2, UseSourceIs
  <2>2. /\ \A i : DigestUseOf(i).field = DigestField(i)
        /\ \A i : DigestAnchorUseOf(i).field = DigestAnchorField(i)
        /\ PayloadUse(Issuer).field = MSO_PAYLOAD
    BY UseParts DEF DigestUseOf, DigestAnchorUseOf, PayloadUse
  <2>3. \A x \in FixedUses : x.field \in FixedFields
    BY FixedUseIs
  <2>4. CASE \E i \in Attributes : u = DigestUseOf(i)
    <3>1. PICK i \in Attributes : u = DigestUseOf(i)
      BY <2>4
    <3>2. u.field = DigestField(i)
      BY <2>2, <3>1
    <3>3. v.field \notin FixedFields \cup {MSO_PAYLOAD}
      BY <3>2, IssuerFieldsDiffer
    <3>4. PICK j \in Attributes : v = DigestUseOf(j) \/ v = DigestAnchorUseOf(j)
      BY <2>1, <2>2, <2>3, <3>3
    <3>5. v = DigestUseOf(j) /\ i = j
      BY <2>2, <3>2, <3>4, IssuerFieldsDiffer
    <3> QED BY <3>1, <3>5
  <2>5. CASE \E i \in Attributes : u = DigestAnchorUseOf(i)
    <3>1. PICK i \in Attributes : u = DigestAnchorUseOf(i)
      BY <2>5
    <3>2. u.field = DigestAnchorField(i)
      BY <2>2, <3>1
    <3>3. v.field \notin FixedFields \cup {MSO_PAYLOAD}
      BY <3>2, IssuerFieldsDiffer
    <3>4. PICK j \in Attributes : v = DigestUseOf(j) \/ v = DigestAnchorUseOf(j)
      BY <2>1, <2>2, <2>3, <3>3
    <3>5. v = DigestAnchorUseOf(j) /\ i = j
      BY <2>2, <3>2, <3>4, IssuerFieldsDiffer
    <3> QED BY <3>1, <3>5
  <2>6. CASE u \in FixedUses
    <3>1. v.field \in FixedFields
      BY <2>3, <2>6
    <3>2. v \in FixedUses
      BY <2>1, <2>2, <3>1, IssuerFieldsDiffer
    <3> QED BY <2>6, <3>2, FixedUseIs
  <2>7. CASE u = PayloadUse(Issuer)
    <3>1. v.field = MSO_PAYLOAD
      BY <2>2, <2>7
    <3>2. v = PayloadUse(Issuer)
      BY <2>1, <2>2, <2>3, <3>1, IssuerFieldsDiffer
    <3> QED BY <2>7, <3>2
  <2> QED BY <2>1, <2>4, <2>5, <2>6, <2>7
<1>3. CASE \E i \in Attributes : u.source = Item(i)
  <2>1. PICK i \in Attributes : u.source = Item(i)
    BY <1>3
  <2>2. u \in ItemUses(i) /\ v \in ItemUses(i)
    BY <1>1, <2>1, UseSourceIs
  <2>3. \A x \in ItemUses(i) :
           LET a == statement.attributes[i] IN
           /\ x.field = ElementField(i)
                  => x = Use("window_bind", Item(i), ElementField(i), a.element)
           /\ x.field = ElementAnchorField(i)
                  => x = Use("window_bind", Item(i), ElementAnchorField(i), a.name.anchor)
           /\ x.field = DOB => x = Use("age", Item(i), DOB, rows.birth)
           /\ x.field = NATIONALITY
                  => x = Use("nationality", Item(i), NATIONALITY, rows.country)
           /\ x.field = ValueField(i) => x = Use("window_bind", Item(i), ValueField(i), a.value)
           /\ x.field = ValueHeadField(i)
                  => x = Use("window_bind", Item(i), ValueHeadField(i), a.head)
           /\ x.field \in {ElementField(i), ElementAnchorField(i), DOB, NATIONALITY,
                           ValueField(i), ValueHeadField(i)}
    BY ItemUseIs
  <2> QED BY <2>2, <2>3
<1>4. CASE u.source \in {Mso, RevocationMessage}
  BY <1>1, <1>4, UseSourceIs
<1> QED BY <1>1, <1>2, <1>3, <1>4, UseSourceIs

(* Every window has its use.                                                  *)
LEMMA WindowsUsed ==
    ASSUME AttributesShape, statement.build \in {"legacy", "coprocessor"}
    PROVE  WindowsAreUsed
<1> SUFFICES ASSUME NEW s \in Sources, NEW w \in Exposure(s)
             PROVE  \E u : UseKinds(u) /\ u.source = s /\ u.field = w.field
  BY UsesByKind DEF WindowsAreUsed
<1>1. CASE s = Issuer
  <2>1. w \in Exposure(Issuer)
    BY <1>1
  <2>2. CASE \E i \in Attributes : w.field \in {DigestField(i), DigestAnchorField(i)}
    <3>1. PICK i \in Attributes : w.field \in {DigestField(i), DigestAnchorField(i)}
      BY <2>2
    <3>2. /\ UseKinds(DigestUseOf(i)) /\ DigestUseOf(i).source = Issuer
          /\ DigestUseOf(i).field = DigestField(i)
      BY UseParts DEF UseKinds, DigestUseOf
    <3>3. /\ UseKinds(DigestAnchorUseOf(i)) /\ DigestAnchorUseOf(i).source = Issuer
          /\ DigestAnchorUseOf(i).field = DigestAnchorField(i)
      BY UseParts DEF UseKinds, DigestAnchorUseOf
    <3> QED BY <1>1, <3>1, <3>2, <3>3
  <2>3. CASE w.field \in FixedFields
    <3>1. \A f \in FixedFields : \E u \in FixedUses : u.source = Issuer /\ u.field = f
      BY SMTT(60), UseParts, KeyUseParts DEF FixedUses, FixedFields
    <3>2. \A u \in FixedUses : UseKinds(u)
      BY DEF UseKinds
    <3> QED BY <1>1, <2>3, <3>1, <3>2
  <2>4. CASE w.field = MSO_PAYLOAD
    <3>1. HasRange
      BY <2>1, <2>4, IssuerWindowIs
    <3>2. /\ UseKinds(PayloadUse(Issuer)) /\ PayloadUse(Issuer).source = Issuer
          /\ PayloadUse(Issuer).field = MSO_PAYLOAD
      BY <3>1, UseParts DEF UseKinds, PayloadUse
    <3> QED BY <1>1, <2>4, <3>2
  <2>5. \/ \E i \in Attributes : w.field \in {DigestField(i), DigestAnchorField(i)}
        \/ w.field \in FixedFields
        \/ w.field = MSO_PAYLOAD
    <3>1. \/ \E i \in Attributes : w.field \in {DigestField(i), DigestAnchorField(i)}
          \/ w.field \in {DEVICE_KEY_X, DEVICE_KEY_Y, VALID_FROM, VALID_UNTIL,
                          DEVICE_KEY_X_ANCHOR, DEVICE_KEY_Y_ANCHOR, VALID_FROM_ANCHOR,
                          VALID_UNTIL_ANCHOR, MSO_PAYLOAD}
      BY <2>1, IssuerWindowIs
    <3> QED BY <3>1 DEF FixedFields
  <2> QED BY <2>2, <2>3, <2>4, <2>5
<1>2. CASE \E i \in Attributes : s = Item(i)
  <2>1. PICK i \in Attributes : s = Item(i)
    BY <1>2
  <2> DEFINE a == statement.attributes[i]
  <2>2. w \in Exposure(Item(i))
    BY <2>1
  <2>3. /\ w.field = DOB => a.mode = "age"
        /\ w.field = NATIONALITY => a.mode = "alpha2"
        /\ w.field \in {ValueField(i), ValueHeadField(i)} => a.mode = "equality"
        /\ w.field \in {ElementField(i), ElementAnchorField(i), DOB, NATIONALITY,
                        ValueField(i), ValueHeadField(i)}
    BY <2>2, ItemWindowIs
  <2>4. \A u \in ItemUses(i) : UseKinds(u)
    BY DEF UseKinds
  <2>5. \E u \in ItemUses(i) : u.source = Item(i) /\ u.field = w.field
    BY SMTT(60), <2>3, UseParts DEF ItemUses
  <2> QED BY <2>1, <2>4, <2>5
<1>3. CASE HasRange /\ s = Mso
  <2>1. w.field = MSO_PAYLOAD
    BY <1>3, SmallExposures DEF Window
  <2>2. /\ UseKinds(PayloadUse(Mso)) /\ PayloadUse(Mso).source = Mso
        /\ PayloadUse(Mso).field = MSO_PAYLOAD
    BY <1>3, UseParts DEF UseKinds, PayloadUse
  <2> QED BY <1>3, <2>1, <2>2
<1>4. CASE HasSignature /\ s = RevocationMessage
  <2>1. w.field = REVOCATION_MESSAGE
    BY <1>4, SmallExposures DEF Window
  <2>2. /\ UseKinds(RangeUse) /\ RangeUse.source = RevocationMessage
        /\ RangeUse.field = REVOCATION_MESSAGE
    BY <1>4, UseParts DEF UseKinds, RangeUse
  <2> QED BY <1>4, <2>1, <2>2
<1>5. CASE s = Device
  BY <1>5, SmallExposures
<1> QED BY <1>1, <1>2, <1>3, <1>4, <1>5, SourcesAre

(* What an honest prover's work consists of.                                  *)
HonestMessages == \A s \in DOMAIN preimages : preimages[s] = HonestMessage(s)
HonestDigests ==
    rows.digests = [i \in Attributes |->
                       Bytes(Issuer, statement.attributes[i].digest.offset, DigestLen)]
HonestDates ==
    /\ rows.from = Bytes(Issuer, statement.from.offset, TextLen)
    /\ rows.until = Bytes(Issuer, statement.until.offset, TextLen)
HonestPayload == HasRange => rows.payload = credential.mso
HonestRange ==
    HasRange => rows.range = [digest |-> Hash(credential.mso),
                              lo |-> statement.revocation.lo, hi |-> statement.revocation.hi]
HonestBirth == \A i \in AttributesOf("age") : rows.birth = credential.attributes[i].value
HonestCountry == \A i \in AttributesOf("alpha2") : rows.country = credential.attributes[i].value
HonestMac ==
    statement.build = "coprocessor" =>
        rows.mac = <<statement.issuerHash, statement.deviceKey[1], statement.deviceKey[2]>>
HonestRows ==
    /\ HonestDigests /\ HonestDates /\ HonestPayload /\ HonestRange
    /\ HonestBirth /\ HonestCountry /\ HonestMac
HonestWork == HonestMessages /\ DOMAIN preimages = Sources /\ HonestRows

LEMMA HonestMessageIs ==
    /\ HonestMessage(Issuer) = credential.issuer
    /\ HonestMessage(Device) = credential.device
    /\ HonestMessage(Mso) = credential.mso
    /\ HonestMessage(RevocationMessage) =
           statement.revocation.lo \o statement.revocation.hi \o statement.revocation.epoch
    /\ \A i : HonestMessage(Item(i)) = credential.attributes[i].item
<1>1. \A i : Item(i)[2] = i
  BY DEF Item
<1>2. \A i : Item(i) # Issuer /\ Item(i) # Device /\ Item(i) # Mso /\ Item(i) # RevocationMessage
  BY SourcesDiffer
<1>3. ASSUME NEW i PROVE HonestMessage(Item(i)) = credential.attributes[i].item
  BY <1>1, <1>2 DEF HonestMessage
<1>4. /\ HonestMessage(Issuer) = credential.issuer
      /\ HonestMessage(Device) = credential.device
      /\ HonestMessage(Mso) = credential.mso
      /\ HonestMessage(RevocationMessage) =
             statement.revocation.lo \o statement.revocation.hi \o statement.revocation.epoch
  BY SourcesDiffer DEF HonestMessage
<1> QED BY <1>3, <1>4

(* The first occurrence is one.                                               *)
LEMMA FindOccurs ==
    ASSUME NEW hay \in Seq(Int), NEW needle \in Seq(Int), Occurrences(hay, needle) # {}
    PROVE  Find(hay, needle) \in Occurrences(hay, needle)
<1> DEFINE S == Occurrences(hay, needle)
<1>1. S \in SUBSET Nat
  BY DEF Occurrences
<1> HIDE DEF S
<1>3. S # {}
  BY DEF S
<1>4. PICK o \in S : \A p \in S : ~(p < o)
  BY <1>1, <1>3, LeastElement
<1>5. \A p \in S : o <= p
  <2> SUFFICES ASSUME NEW p \in S PROVE o <= p
    OBVIOUS
  <2>1. p \in Nat /\ o \in Nat
    BY <1>1
  <2>2. ~(p < o)
    BY <1>4
  <2> QED BY <2>1, <2>2
<1> DEFINE First(q) == \A p \in S : q <= p
<1>6. Find(hay, needle) = CHOOSE q \in S : First(q)
  BY DEF Find, S
<1>7. o \in S /\ First(o)
  BY <1>4, <1>5
<1> HIDE DEF First
<1>8. (CHOOSE q \in S : First(q)) \in S
  BY <1>7
<1>9. Find(hay, needle) \in S
  BY <1>6, <1>8
<1> QED BY <1>9 DEF S

LEMMA FoundFits ==
    ASSUME NEW s, preimages[s] \in Seq(Int), NEW cells \in Seq(Int),
           Occurrences(preimages[s], cells) # {}, NEW by, NEW field
    PROVE  Fits(Use(by, s, field, cells),
                Window(field, Find(preimages[s], cells), Len(cells)))
<1> DEFINE u == Use(by, s, field, cells)
           o == Find(preimages[s], cells)
           w == Window(field, o, Len(cells))
<1>1. o \in Occurrences(preimages[s], cells)
  BY FindOccurs
<1>2. u.source = s /\ u.field = field /\ u.cells = cells
  BY DEF Use
<1> HIDE DEF o
<1>3. w.field = field /\ w.offset = o /\ w.len = Len(cells)
  BY DEF Window
<1>4. \A j \in 1 .. Len(cells) : preimages[s][o + j] = cells[j]
  <2>1. DOMAIN cells = 1 .. Len(cells)
    OBVIOUS
  <2> QED BY <1>1, <2>1 DEF Occurrences
<1> HIDE DEF u, w
<1>5. Fits(u, w)
  BY <1>2, <1>3, <1>4 DEF Fits
<1> QED BY <1>5 DEF u, w, o

LEMMA AnchorFitsUse ==
    ASSUME NEW s, NEW anchor, IsText(anchor), NEW offset,
           AnchorFits(preimages[s], offset, anchor), NEW by, NEW field
    PROVE  Fits(Use(by, s, field, anchor), Anchor(field, Located(offset, anchor)))
<1> DEFINE u == Use(by, s, field, anchor)
           o == offset - Len(anchor)
           w == Anchor(field, Located(offset, anchor))
<1>1. o \in Occurrences(preimages[s], anchor)
  BY DEF AnchorFits
<1>2. u.source = s /\ u.field = field /\ u.cells = anchor
  BY DEF Use
<1>3. w.field = field /\ w.offset = o /\ w.len = Len(anchor)
  BY DEF Window, Anchor, Located
<1> HIDE DEF o
<1>4. \A j \in 1 .. Len(anchor) : preimages[s][o + j] = anchor[j]
  <2>1. PICK S : anchor \in Seq(S)
    BY DEF IsText
  <2> QED BY <1>1, <2>1 DEF Occurrences
<1> HIDE DEF u, w
<1>5. Fits(u, w)
  BY <1>2, <1>3, <1>4 DEF Fits
<1> QED BY <1>5 DEF u, w

LEMMA BytesFit ==
    ASSUME NEW s, NEW o, NEW n \in Nat, NEW by, NEW field
    PROVE  Fits(Use(by, s, field, Bytes(s, o, n)), Window(field, o, n))
<1> DEFINE u == Use(by, s, field, Bytes(s, o, n))
           w == Window(field, o, n)
<1>1. Len(Bytes(s, o, n)) = n
  BY BytesIsText
<1>2. \A j \in 1 .. n : preimages[s][o + j] = Bytes(s, o, n)[j]
  BY DEF Bytes
<1>3. u.source = s /\ u.field = field /\ u.cells = Bytes(s, o, n)
  BY DEF Use
<1>4. w.field = field /\ w.offset = o /\ w.len = n
  BY DEF Window
<1> HIDE DEF u, w
<1>5. Fits(u, w)
  BY <1>1, <1>2, <1>3, <1>4 DEF Fits
<1> QED BY <1>5 DEF u, w

LEMMA WholeFits ==
    ASSUME NEW s, preimages[s] \in Seq(Int), NEW by, NEW field, NEW n, n = Len(preimages[s])
    PROVE  Fits(Use(by, s, field, preimages[s]), Window(field, 0, n))
<1> DEFINE m == preimages[s]
           u == Use(by, s, field, m)
           w == Window(field, 0, n)
<1>1. u.source = s /\ u.field = field /\ u.cells = m
  BY DEF Use
<1>2. w.field = field /\ w.offset = 0 /\ w.len = n
  BY DEF Window
<1>3. Len(m) \in Nat
  OBVIOUS
<1> HIDE DEF u, w
<1>4. Fits(u, w)
  BY <1>1, <1>2, <1>3 DEF Fits
<1> QED BY <1>4 DEF u, w

(* What extraction leaves in the statement, for a credential c = credential.  *)
LEMMA StatementIs ==
    ASSUME NEW policy, NEW build, NEW revocation,
           Extraction(credential, policy, build, revocation)
    PROVE  /\ statement.keyX = Located(Find(credential.issuer, credential.keyX), KeyXAnchor)
           /\ statement.keyY = Located(Find(credential.issuer, credential.keyY), KeyYAnchor)
           /\ statement.from = Located(DateOffset(credential, ValidFromLabel, credential.validFrom),
                                       TdateAnchor(ValidFromLabel))
           /\ statement.until = Located(DateOffset(credential, ValidUntilLabel, credential.validUntil),
                                        TdateAnchor(ValidUntilLabel))
           /\ statement.payload = [offset |-> Find(credential.issuer, credential.mso),
                                   len |-> Len(credential.mso)]
           /\ statement.issuerHash = Hash(credential.issuer)
           /\ statement.deviceHash = Hash(credential.device)
           /\ statement.deviceKey = <<credential.keyX, credential.keyY>>
           /\ statement.revocation = revocation
           /\ statement.revocationHash = Hash(revocation.lo \o revocation.hi \o revocation.epoch)
           /\ \A i \in Attributes :
                 statement.attributes[i] = StatementAttribute(credential, credential.attributes[i])
<1>1. statement = FromExtracted(credential, policy, build, revocation)
  BY DEF Extraction
<1>2. /\ statement.keyX = Located(Find(credential.issuer, credential.keyX), KeyXAnchor)
      /\ statement.keyY = Located(Find(credential.issuer, credential.keyY), KeyYAnchor)
      /\ statement.from = Located(DateOffset(credential, ValidFromLabel, credential.validFrom),
                                  TdateAnchor(ValidFromLabel))
      /\ statement.until = Located(DateOffset(credential, ValidUntilLabel, credential.validUntil),
                                   TdateAnchor(ValidUntilLabel))
      /\ statement.payload = [offset |-> Find(credential.issuer, credential.mso),
                              len |-> Len(credential.mso)]
  BY <1>1 DEF FromExtracted
<1>3. /\ statement.issuerHash = Hash(credential.issuer)
      /\ statement.deviceHash = Hash(credential.device)
      /\ statement.deviceKey = <<credential.keyX, credential.keyY>>
      /\ statement.revocation = revocation
      /\ statement.revocationHash = Hash(revocation.lo \o revocation.hi \o revocation.epoch)
  BY <1>1 DEF FromExtracted
<1>4. statement.attributes = [i \in DOMAIN credential.attributes |->
                                 StatementAttribute(credential, credential.attributes[i])]
  BY <1>1 DEF FromExtracted
<1>5. \A i \in Attributes :
         statement.attributes[i] = StatementAttribute(credential, credential.attributes[i])
  BY <1>4 DEF Attributes
<1> QED BY <1>2, <1>3, <1>5

(* The attributes of an item, as the credential has them.                     *)
LEMMA AttributeIs ==
    ASSUME NEW policy, NEW build, NEW revocation,
           Extraction(credential, policy, build, revocation), NEW i \in Attributes
    PROVE  LET sa == statement.attributes[i]
               a == credential.attributes[i]
           IN  /\ sa.mode = a.mode /\ sa.element = a.element /\ sa.value = a.value
               /\ sa.head = SubSeq(a.value, 1, a.headLen)
               /\ sa.name = Located(Find(a.item, a.element), ElementAnchor(a.element))
               /\ sa.valueOffset = Find(a.item, a.value)
               /\ sa.digest = Located(Find(credential.issuer, Hash(a.item)),
                                      DigestAnchor(a.digestId))
               /\ a.element \in Seq(Int) /\ a.value \in Seq(Int) /\ a.item \in Seq(Int)
               /\ a.headLen \in 0 .. Len(a.value)
               /\ Hash(a.item) \in Seq(Int) /\ Len(Hash(a.item)) = DigestLen
               /\ IsText(ElementAnchor(a.element)) /\ IsText(DigestAnchor(a.digestId))
               /\ ExtractableAttribute(credential, a)
<1> DEFINE sa == statement.attributes[i]
           a == credential.attributes[i]
<1>1. sa = StatementAttribute(credential, a)
  BY StatementIs
<1>2. i \in DOMAIN credential.attributes /\ credential \in Credentials
  BY StatementHasShape DEF Extraction
<1>3. /\ a.element \in Seq(Int) /\ a.value \in Seq(Int)
      /\ a.headLen \in 0 .. Len(a.value) /\ a.digestId \in Nat
  BY <1>2, CredentialsAssumption
<1>4. a.item \in Seq(Int) /\ Hash(a.item) \in Seq(Int) /\ Len(Hash(a.item)) = DigestLen
  BY <1>2, WidthsAssumption
<1>5. ExtractableAttribute(credential, a)
  BY <1>2 DEF Extraction, Extractable
<1> HIDE DEF a, sa
<1>6. /\ sa.mode = a.mode /\ sa.element = a.element /\ sa.value = a.value
      /\ sa.head = SubSeq(a.value, 1, a.headLen)
      /\ sa.name = Located(Find(a.item, a.element), ElementAnchor(a.element))
      /\ sa.valueOffset = Find(a.item, a.value)
      /\ sa.digest = Located(Find(credential.issuer, Hash(a.item)), DigestAnchor(a.digestId))
  BY <1>1 DEF StatementAttribute
<1>7. IsText(ElementAnchor(a.element)) /\ IsText(DigestAnchor(a.digestId))
  <2>1. Len(a.element) \in Nat
    BY <1>3
  <2> QED BY <1>3, <2>1, AnchorsAreText
<1> QED BY <1>3, <1>4, <1>5, <1>6, <1>7 DEF a, sa

LEMMA CredentialIs ==
    ASSUME NEW policy, NEW build, NEW revocation,
           Extraction(credential, policy, build, revocation)
    PROVE  /\ credential.issuer \in Seq(Int) /\ credential.mso \in Seq(Int)
           /\ credential.keyX \in Seq(Int) /\ Len(credential.keyX) = DigestLen
           /\ credential.keyY \in Seq(Int) /\ Len(credential.keyY) = DigestLen
           /\ Occurrences(credential.issuer, credential.mso) # {}
           /\ Occurrences(credential.issuer, credential.keyX) # {}
           /\ Occurrences(credential.issuer, credential.keyY) # {}
           /\ AnchorFits(credential.issuer, Find(credential.issuer, credential.keyX), KeyXAnchor)
           /\ AnchorFits(credential.issuer, Find(credential.issuer, credential.keyY), KeyYAnchor)
           /\ AnchorFits(credential.issuer,
                         DateOffset(credential, ValidFromLabel, credential.validFrom),
                         TdateAnchor(ValidFromLabel))
           /\ AnchorFits(credential.issuer,
                         DateOffset(credential, ValidUntilLabel, credential.validUntil),
                         TdateAnchor(ValidUntilLabel))
<1>1. credential \in Credentials /\ Extractable(credential, policy)
  BY DEF Extraction
<1>2. /\ credential.issuer \in Seq(Int) /\ credential.mso \in Seq(Int)
      /\ credential.keyX \in Seq(Int) /\ Len(credential.keyX) = DigestLen
      /\ credential.keyY \in Seq(Int) /\ Len(credential.keyY) = DigestLen
  BY <1>1, CredentialsAssumption, WidthsAssumption
<1>3. /\ Occurrences(credential.issuer, credential.mso) # {}
      /\ Occurrences(credential.issuer, credential.keyX) # {}
      /\ Occurrences(credential.issuer, credential.keyY) # {}
      /\ AnchorFits(credential.issuer, Find(credential.issuer, credential.keyX), KeyXAnchor)
      /\ AnchorFits(credential.issuer, Find(credential.issuer, credential.keyY), KeyYAnchor)
      /\ ExtractableDate(credential, ValidFromLabel, credential.validFrom)
      /\ ExtractableDate(credential, ValidUntilLabel, credential.validUntil)
  BY <1>1 DEF Extractable
<1> QED BY <1>2, <1>3 DEF ExtractableDate

LEMMA HonestPreimages ==
    ASSUME HonestMessages, DOMAIN preimages = Sources
    PROVE  /\ Issuer \in Sources /\ preimages[Issuer] = credential.issuer
           /\ Device \in Sources /\ preimages[Device] = credential.device
           /\ HasRange => Mso \in Sources /\ preimages[Mso] = credential.mso
           /\ HasSignature =>
                 /\ RevocationMessage \in Sources
                 /\ preimages[RevocationMessage] =
                        statement.revocation.lo \o statement.revocation.hi
                            \o statement.revocation.epoch
           /\ \A i \in Attributes : /\ Item(i) \in Sources
                                    /\ preimages[Item(i)] = credential.attributes[i].item
<1>1. /\ Issuer \in Sources /\ Device \in Sources
      /\ HasRange => Mso \in Sources
      /\ HasSignature => RevocationMessage \in Sources
      /\ \A i \in Attributes : Item(i) \in Sources
  BY DEF Sources
<1> QED BY <1>1, HonestMessageIs DEF HonestMessages

(* The issuer's message shows what is asked of it.                            *)
LEMMA FixedSupplied ==
    ASSUME HonestWork, NEW policy, NEW build, NEW revocation,
           Extraction(credential, policy, build, revocation), NEW u \in FixedUses
    PROVE  \E w \in Exposure(Issuer) : Fits(u, w)
<1>1. preimages[Issuer] = credential.issuer
  BY HonestPreimages DEF HonestWork
<1>2. /\ IsText(KeyXAnchor) /\ IsText(KeyYAnchor)
      /\ IsText(TdateAnchor(ValidFromLabel)) /\ IsText(TdateAnchor(ValidUntilLabel))
  BY AnchorsAreText DEF ValidFromLabel, ValidUntilLabel
<1> DEFINE keyX == Find(credential.issuer, credential.keyX)
           keyY == Find(credential.issuer, credential.keyY)
           from == DateOffset(credential, ValidFromLabel, credential.validFrom)
           until == DateOffset(credential, ValidUntilLabel, credential.validUntil)
           fromAnchor == TdateAnchor(ValidFromLabel)
           untilAnchor == TdateAnchor(ValidUntilLabel)
<1>3. /\ AnchorFits(preimages[Issuer], keyX, KeyXAnchor)
      /\ AnchorFits(preimages[Issuer], keyY, KeyYAnchor)
      /\ AnchorFits(preimages[Issuer], from, fromAnchor)
      /\ AnchorFits(preimages[Issuer], until, untilAnchor)
  BY <1>1, CredentialIs
<1>4. /\ statement.keyX = Located(keyX, KeyXAnchor) /\ statement.keyY = Located(keyY, KeyYAnchor)
      /\ statement.from = Located(from, fromAnchor) /\ statement.until = Located(until, untilAnchor)
  BY StatementIs
<1>5. /\ credential.keyX \in Seq(Int) /\ Len(credential.keyX) = DigestLen
      /\ credential.keyY \in Seq(Int) /\ Len(credential.keyY) = DigestLen
      /\ Occurrences(preimages[Issuer], credential.keyX) # {}
      /\ Occurrences(preimages[Issuer], credential.keyY) # {}
      /\ preimages[Issuer] \in Seq(Int)
      /\ keyX = Find(preimages[Issuer], credential.keyX)
      /\ keyY = Find(preimages[Issuer], credential.keyY)
  BY <1>1, CredentialIs
<1> HIDE DEF keyX, keyY, from, until, fromAnchor, untilAnchor
<1>7. /\ statement.keyX.anchor = KeyXAnchor /\ statement.keyX.offset = keyX
      /\ statement.keyY.anchor = KeyYAnchor /\ statement.keyY.offset = keyY
      /\ statement.from.anchor = fromAnchor /\ statement.from.offset = from
      /\ statement.until.anchor = untilAnchor /\ statement.until.offset = until
  BY <1>4 DEF Located
<1>8. Exposure(Issuer) = IssuerMsoExposure
  BY DEF Exposure, Issuer
<1>9. /\ Value(DEVICE_KEY_X, statement.keyX, DigestLen) \in Exposure(Issuer)
      /\ Value(DEVICE_KEY_Y, statement.keyY, DigestLen) \in Exposure(Issuer)
      /\ Value(VALID_FROM, statement.from, TextLen) \in Exposure(Issuer)
      /\ Value(VALID_UNTIL, statement.until, TextLen) \in Exposure(Issuer)
      /\ Anchor(DEVICE_KEY_X_ANCHOR, statement.keyX) \in Exposure(Issuer)
      /\ Anchor(DEVICE_KEY_Y_ANCHOR, statement.keyY) \in Exposure(Issuer)
      /\ Anchor(VALID_FROM_ANCHOR, statement.from) \in Exposure(Issuer)
      /\ Anchor(VALID_UNTIL_ANCHOR, statement.until) \in Exposure(Issuer)
  BY <1>8 DEF IssuerMsoExposure
<1>10. /\ Fits(Use("window_bind", Issuer, DEVICE_KEY_X_ANCHOR, statement.keyX.anchor),
               Anchor(DEVICE_KEY_X_ANCHOR, statement.keyX))
       /\ Fits(Use("window_bind", Issuer, DEVICE_KEY_Y_ANCHOR, statement.keyY.anchor),
               Anchor(DEVICE_KEY_Y_ANCHOR, statement.keyY))
       /\ Fits(Use("window_bind", Issuer, VALID_FROM_ANCHOR, statement.from.anchor),
               Anchor(VALID_FROM_ANCHOR, statement.from))
       /\ Fits(Use("window_bind", Issuer, VALID_UNTIL_ANCHOR, statement.until.anchor),
               Anchor(VALID_UNTIL_ANCHOR, statement.until))
  <2>1. Fits(Use("window_bind", Issuer, DEVICE_KEY_X_ANCHOR, KeyXAnchor),
             Anchor(DEVICE_KEY_X_ANCHOR, Located(keyX, KeyXAnchor)))
    BY <1>2, <1>3, AnchorFitsUse
  <2>2. Fits(Use("window_bind", Issuer, DEVICE_KEY_Y_ANCHOR, KeyYAnchor),
             Anchor(DEVICE_KEY_Y_ANCHOR, Located(keyY, KeyYAnchor)))
    BY <1>2, <1>3, AnchorFitsUse
  <2>3. Fits(Use("window_bind", Issuer, VALID_FROM_ANCHOR, fromAnchor),
             Anchor(VALID_FROM_ANCHOR, Located(from, fromAnchor)))
    BY <1>2, <1>3, AnchorFitsUse DEF fromAnchor
  <2>4. Fits(Use("window_bind", Issuer, VALID_UNTIL_ANCHOR, untilAnchor),
             Anchor(VALID_UNTIL_ANCHOR, Located(until, untilAnchor)))
    BY <1>2, <1>3, AnchorFitsUse DEF untilAnchor
  <2> QED BY <1>4, <1>7, <2>1, <2>2, <2>3, <2>4
<1>11. /\ Fits(Use("validity", Issuer, VALID_FROM, rows.from),
               Value(VALID_FROM, statement.from, TextLen))
       /\ Fits(Use("validity", Issuer, VALID_UNTIL, rows.until),
               Value(VALID_UNTIL, statement.until, TextLen))
  <2>1. TextLen \in Nat
    BY DEF TextLen
  <2>2. Fits(Use("validity", Issuer, VALID_FROM, Bytes(Issuer, statement.from.offset, TextLen)),
             Window(VALID_FROM, statement.from.offset, TextLen))
    BY <2>1, BytesFit
  <2>3. Fits(Use("validity", Issuer, VALID_UNTIL, Bytes(Issuer, statement.until.offset, TextLen)),
             Window(VALID_UNTIL, statement.until.offset, TextLen))
    BY <2>1, BytesFit
  <2> QED BY <2>2, <2>3 DEF HonestWork, HonestRows, HonestDates, Value
<1>12. ASSUME NEW by
       PROVE  /\ Fits(Use(by, Issuer, DEVICE_KEY_X, credential.keyX),
                      Value(DEVICE_KEY_X, statement.keyX, DigestLen))
              /\ Fits(Use(by, Issuer, DEVICE_KEY_Y, credential.keyY),
                      Value(DEVICE_KEY_Y, statement.keyY, DigestLen))
  <2>1. Fits(Use(by, Issuer, DEVICE_KEY_X, credential.keyX),
             Window(DEVICE_KEY_X, keyX, DigestLen))
    BY <1>5, FoundFits
  <2>2. Fits(Use(by, Issuer, DEVICE_KEY_Y, credential.keyY),
             Window(DEVICE_KEY_Y, keyY, DigestLen))
    BY <1>5, FoundFits
  <2> QED BY <1>7, <2>1, <2>2 DEF Value
<1>13. /\ \E by : KeyUse(DEVICE_KEY_X, 1) = Use(by, Issuer, DEVICE_KEY_X, credential.keyX)
       /\ \E by : KeyUse(DEVICE_KEY_Y, 2) = Use(by, Issuer, DEVICE_KEY_Y, credential.keyY)
  <2>1. statement.deviceKey = <<credential.keyX, credential.keyY>>
    BY StatementIs
  <2>2. statement.build \in {"legacy", "coprocessor"}
    BY StatementHasShape
  <2>3. CASE statement.build = "legacy"
    BY <2>1, <2>3 DEF KeyUse
  <2>4. CASE statement.build = "coprocessor"
    <3>1. rows.mac[2] = credential.keyX /\ rows.mac[3] = credential.keyY
      BY <2>1, <2>4 DEF HonestWork, HonestRows, HonestMac
    <3> QED BY <2>4, <3>1 DEF KeyUse
  <2> QED BY <2>2, <2>3, <2>4
<1>14. CASE u = KeyUse(DEVICE_KEY_X, 1)
  BY <1>9, <1>12, <1>13, <1>14
<1>15. CASE u = KeyUse(DEVICE_KEY_Y, 2)
  BY <1>9, <1>12, <1>13, <1>15
<1> QED BY <1>9, <1>10, <1>11, <1>14, <1>15 DEF FixedUses

LEMMA DigestsSupplied ==
    ASSUME HonestWork, NEW policy, NEW build, NEW revocation,
           Extraction(credential, policy, build, revocation), NEW i \in Attributes
    PROVE  /\ \E w \in Exposure(Issuer) : Fits(DigestUseOf(i), w)
           /\ \E w \in Exposure(Issuer) : Fits(DigestAnchorUseOf(i), w)
<1> DEFINE d == statement.attributes[i].digest
           a == credential.attributes[i]
           o == Find(credential.issuer, Hash(a.item))
           anchor == DigestAnchor(a.digestId)
<1>1. preimages[Issuer] = credential.issuer
  BY HonestPreimages DEF HonestWork
<1>2. /\ Value(DigestField(i), d, DigestLen) \in Exposure(Issuer)
      /\ Anchor(DigestAnchorField(i), d) \in Exposure(Issuer)
  BY DEF Exposure, Issuer, IssuerMsoExposure
<1>3. rows.digests[i] = Bytes(Issuer, d.offset, DigestLen)
  BY DEF HonestWork, HonestRows, HonestDigests
<1>4. Fits(DigestUseOf(i), Value(DigestField(i), d, DigestLen))
  BY <1>3, BytesFit, LengthsAssumption DEF DigestUseOf, Value
<1>5. /\ d = Located(o, anchor) /\ IsText(anchor)
      /\ ExtractableAttribute(credential, a)
  BY AttributeIs
<1>6. AnchorFits(preimages[Issuer], o, anchor)
  BY <1>1, <1>5 DEF ExtractableAttribute
<1> HIDE DEF d, o, anchor
<1>7. d.anchor = anchor
  BY <1>5 DEF Located
<1>8. Fits(Use("window_bind", Issuer, DigestAnchorField(i), anchor),
           Anchor(DigestAnchorField(i), Located(o, anchor)))
  BY <1>5, <1>6, AnchorFitsUse
<1>9. Fits(DigestAnchorUseOf(i), Anchor(DigestAnchorField(i), d))
  BY <1>5, <1>7, <1>8 DEF DigestAnchorUseOf, d
<1> QED BY <1>2, <1>4, <1>9

LEMMA PayloadSupplied ==
    ASSUME HonestWork, NEW policy, NEW build, NEW revocation,
           Extraction(credential, policy, build, revocation), HasRange
    PROVE  /\ \E w \in Exposure(Issuer) : Fits(PayloadUse(Issuer), w)
           /\ \E w \in Exposure(Mso) : Fits(PayloadUse(Mso), w)
<1> DEFINE mso == credential.mso
<1>1. preimages[Issuer] = credential.issuer /\ preimages[Mso] = mso
  BY HonestPreimages DEF HonestWork
<1>2. rows.payload = mso
  BY DEF HonestWork, HonestRows, HonestPayload
<1>3. /\ statement.payload.offset = Find(credential.issuer, mso)
      /\ statement.payload.len = Len(mso)
  BY StatementIs
<1>4. /\ preimages[Issuer] \in Seq(Int) /\ mso \in Seq(Int)
      /\ Occurrences(preimages[Issuer], mso) # {}
  BY <1>1, CredentialIs
<1> HIDE DEF mso
<1>5. /\ Value(MSO_PAYLOAD, statement.payload, statement.payload.len) \in Exposure(Issuer)
      /\ Window(MSO_PAYLOAD, 0, statement.payload.len) \in Exposure(Mso)
  BY SmallExposures DEF Exposure, Issuer, IssuerMsoExposure
<1>6. Fits(PayloadUse(Issuer), Value(MSO_PAYLOAD, statement.payload, statement.payload.len))
  <2>1. Fits(Use("payload_bind", Issuer, MSO_PAYLOAD, mso),
             Window(MSO_PAYLOAD, Find(preimages[Issuer], mso), Len(mso)))
    BY <1>4, FoundFits
  <2> QED BY <1>1, <1>2, <1>3, <2>1 DEF PayloadUse, Value
<1>7. Fits(PayloadUse(Mso), Window(MSO_PAYLOAD, 0, statement.payload.len))
  <2>1. Fits(Use("payload_bind", Mso, MSO_PAYLOAD, preimages[Mso]),
             Window(MSO_PAYLOAD, 0, statement.payload.len))
    BY <1>1, <1>3, <1>4, WholeFits
  <2> QED BY <1>1, <1>2, <2>1 DEF PayloadUse
<1> QED BY <1>5, <1>6, <1>7

LEMMA ThreeParts ==
    ASSUME NEW x \in Seq(Int), NEW y \in Seq(Int), NEW z \in Seq(Int)
    PROVE  x \o y \o z \in Seq(Int) /\ Len(x \o y \o z) = Len(x) + Len(y) + Len(z)
<1>1. x \o y \in Seq(Int) /\ Len(x \o y) = Len(x) + Len(y)
  OBVIOUS
<1> DEFINE xy == x \o y
<1> HIDE DEF xy
<1>2. xy \in Seq(Int) => xy \o z \in Seq(Int) /\ Len(xy \o z) = Len(xy) + Len(z)
  OBVIOUS
<1> QED BY <1>1, <1>2 DEF xy

LEMMA RangeSupplied ==
    ASSUME HonestWork, NEW policy, NEW build, NEW revocation,
           Extraction(credential, policy, build, revocation), HasSignature
    PROVE  \E w \in Exposure(RevocationMessage) : Fits(RangeUse, w)
<1> DEFINE r == statement.revocation
           m == r.lo \o r.hi \o r.epoch
<1>1. r \in Revocations /\ r.kind = "signed"
  BY StatementHasShape DEF HasSignature
<1>2. /\ r.lo \in Seq(Int) /\ r.hi \in Seq(Int) /\ r.epoch \in Seq(Int)
      /\ Len(r.lo) = IdLen /\ Len(r.hi) = IdLen /\ Len(r.epoch) = 4
  BY <1>1, RevocationsAssumption, WidthsAssumption
<1>3. m \in Seq(Int) /\ Len(m) = RevocationMessageLen
  <2>1. m \in Seq(Int) /\ Len(m) = Len(r.lo) + Len(r.hi) + Len(r.epoch)
    <3> HIDE DEF r
    <3> QED BY <1>2, ThreeParts
  <2> QED BY <1>2, <2>1, LengthsAssumption DEF RevocationMessageLen
<1>4. preimages[RevocationMessage] = m
  BY HonestPreimages DEF HonestWork
<1>5. SignedRange = m
  <2>1. rows.range = [digest |-> Hash(credential.mso), lo |-> r.lo, hi |-> r.hi]
    BY DEF HonestWork, HonestRows, HonestRange, HasRange, HasSignature
  <2>2. rows.range.lo = r.lo /\ rows.range.hi = r.hi
    BY <2>1
  <2> QED BY <2>2 DEF SignedRange
<1> HIDE DEF m
<1>6. Fits(Use("revocation_range", RevocationMessage, REVOCATION_MESSAGE,
               preimages[RevocationMessage]),
           Window(REVOCATION_MESSAGE, 0, RevocationMessageLen))
  BY <1>3, <1>4, WholeFits
<1>7. Fits(RangeUse, Window(REVOCATION_MESSAGE, 0, RevocationMessageLen))
  BY <1>4, <1>5, <1>6 DEF RangeUse
<1> QED BY <1>7, SmallExposures

(* The item shows its name and its value.                                     *)
LEMMA ItemSupplied ==
    ASSUME HonestWork, NEW policy, NEW build, NEW revocation,
           Extraction(credential, policy, build, revocation),
           NEW i \in Attributes, NEW u \in ItemUses(i)
    PROVE  \E w \in Exposure(Item(i)) : Fits(u, w)
<1> DEFINE sa == statement.attributes[i]
           a == credential.attributes[i]
           name == Find(a.item, a.element)
           value == Find(a.item, a.value)
           anchor == ElementAnchor(a.element)
           head == SubSeq(a.value, 1, a.headLen)
<1>1. preimages[Item(i)] = a.item
  BY HonestPreimages DEF HonestWork
<1>2. /\ sa.mode = a.mode /\ sa.element = a.element /\ sa.value = a.value
      /\ sa.head = head /\ sa.name = Located(name, anchor) /\ sa.valueOffset = value
      /\ a.element \in Seq(Int) /\ a.value \in Seq(Int) /\ a.item \in Seq(Int)
      /\ a.headLen \in 0 .. Len(a.value) /\ IsText(anchor)
  BY AttributeIs
<1>3. ExtractableAttribute(credential, a)
  BY AttributeIs
<1>4. /\ Occurrences(preimages[Item(i)], a.element) # {}
      /\ Occurrences(preimages[Item(i)], a.value) # {}
      /\ AnchorFits(preimages[Item(i)], name, anchor)
      /\ preimages[Item(i)] \in Seq(Int)
      /\ name = Find(preimages[Item(i)], a.element)
      /\ value = Find(preimages[Item(i)], a.value)
  BY <1>1, <1>2, <1>3 DEF ExtractableAttribute
<1>5. sa.mode = "age" => rows.birth = a.value
  BY DEF HonestWork, HonestRows, HonestBirth, AttributesOf
<1>6. sa.mode = "alpha2" => rows.country = a.value
  BY DEF HonestWork, HonestRows, HonestCountry, AttributesOf
<1>7. /\ Value(ElementField(i), sa.name, Len(sa.element)) \in Exposure(Item(i))
      /\ Anchor(ElementAnchorField(i), sa.name) \in Exposure(Item(i))
      /\ sa.mode = "age" => Window(DOB, sa.valueOffset, Len(sa.value)) \in Exposure(Item(i))
      /\ sa.mode = "alpha2"
            => Window(NATIONALITY, sa.valueOffset, Len(sa.value)) \in Exposure(Item(i))
      /\ sa.mode = "equality"
            => /\ Window(ValueField(i), sa.valueOffset, Len(sa.value)) \in Exposure(Item(i))
               /\ Window(ValueHeadField(i), sa.valueOffset, Len(sa.head)) \in Exposure(Item(i))
  <2>1. Exposure(Item(i)) = AttributeExposure(i)
    BY DEF Exposure, Item
  <2> QED BY <2>1 DEF AttributeExposure
<1> HIDE DEF sa, a, name, value, anchor, head
<1>8. sa.name.anchor = anchor /\ sa.name.offset = name
  BY <1>2 DEF Located
<1>9. Fits(Use("window_bind", Item(i), ElementField(i), sa.element),
           Value(ElementField(i), sa.name, Len(sa.element)))
  <2>1. Fits(Use("window_bind", Item(i), ElementField(i), a.element),
             Window(ElementField(i), name, Len(a.element)))
    BY <1>2, <1>4, FoundFits
  <2> QED BY <1>2, <1>8, <2>1 DEF Value
<1>10. Fits(Use("window_bind", Item(i), ElementAnchorField(i), sa.name.anchor),
            Anchor(ElementAnchorField(i), sa.name))
  <2>1. Fits(Use("window_bind", Item(i), ElementAnchorField(i), anchor),
             Anchor(ElementAnchorField(i), Located(name, anchor)))
    BY <1>2, <1>4, AnchorFitsUse
  <2> QED BY <1>2, <1>8, <2>1
<1>11. ASSUME NEW by, NEW field
       PROVE  Fits(Use(by, Item(i), field, a.value), Window(field, sa.valueOffset, Len(sa.value)))
  BY <1>2, <1>4, FoundFits
<1>12. Fits(Use("window_bind", Item(i), ValueHeadField(i), sa.head),
            Window(ValueHeadField(i), sa.valueOffset, Len(sa.head)))
  <2>1. /\ Len(head) = a.headLen /\ a.headLen \in 0 .. Len(a.value)
        /\ \A j \in 1 .. a.headLen : head[j] = a.value[j]
    <3>1. /\ Len(SubSeq(a.value, 1, a.headLen)) = a.headLen
          /\ \A j \in 1 .. a.headLen : SubSeq(a.value, 1, a.headLen)[j] = a.value[j]
      BY <1>2, SubSeqProperties
    <3> QED BY <1>2, <3>1 DEF head
  <2>2. \A j \in 1 .. Len(a.value) : preimages[Item(i)][value + j] = a.value[j]
    <3>1. Fits(Use("window_bind", Item(i), ValueHeadField(i), a.value),
               Window(ValueHeadField(i), value, Len(a.value)))
      BY <1>2, <1>11
    <3> QED BY <3>1 DEF Fits, Use, Window
  <2>3. \A j \in 1 .. Len(head) : preimages[Item(i)][value + j] = head[j]
    BY <1>2, <2>1, <2>2
  <2>4. Fits(Use("window_bind", Item(i), ValueHeadField(i), head),
             Window(ValueHeadField(i), value, Len(head)))
    BY <2>3 DEF Fits, Use, Window
  <2> QED BY <1>2, <2>4
<1>13. CASE sa.mode = "age" /\ u = Use("age", Item(i), DOB, rows.birth)
  BY <1>5, <1>7, <1>11, <1>13
<1>14. CASE sa.mode = "alpha2" /\ u = Use("nationality", Item(i), NATIONALITY, rows.country)
  BY <1>6, <1>7, <1>11, <1>14
<1>15. CASE sa.mode = "equality" /\ u = Use("window_bind", Item(i), ValueField(i), sa.value)
  BY <1>2, <1>7, <1>11, <1>15
<1> QED BY <1>7, <1>9, <1>10, <1>12, <1>13, <1>14, <1>15 DEF ItemUses, sa

LEMMA UsesSupplied ==
    ASSUME HonestWork, NEW policy, NEW build, NEW revocation,
           Extraction(credential, policy, build, revocation)
    PROVE  UsesAreSupplied
<1> SUFFICES ASSUME NEW u \in FieldUses
             PROVE  u.source \in Sources /\ \E w \in Exposure(u.source) : Fits(u, w)
  BY DEF UsesAreSupplied
<1>1. AttributesShape /\ statement.build \in {"legacy", "coprocessor"}
  BY StatementHasShape DEF StatementShape
<1>2. UseKinds(u)
  BY <1>1, UsesByKind
<1>3. /\ Issuer \in Sources
      /\ HasRange => Mso \in Sources
      /\ HasSignature => RevocationMessage \in Sources
      /\ \A i \in Attributes : Item(i) \in Sources
  BY DEF Sources
<1>4. CASE \E i \in Attributes : u \in ItemUses(i)
  <2>1. PICK i \in Attributes : u \in ItemUses(i)
    BY <1>4
  <2>2. u.source = Item(i)
    BY <1>1, <2>1, ItemUseIs
  <2>3. \E w \in Exposure(Item(i)) : Fits(u, w)
    BY <2>1, ItemSupplied
  <2> QED BY <1>3, <2>2, <2>3
<1>5. CASE \E i \in Attributes : u = DigestUseOf(i) \/ u = DigestAnchorUseOf(i)
  <2>1. PICK i \in Attributes : u = DigestUseOf(i) \/ u = DigestAnchorUseOf(i)
    BY <1>5
  <2>2. u.source = Issuer
    BY <2>1, UseParts DEF DigestUseOf, DigestAnchorUseOf
  <2>3. \E w \in Exposure(Issuer) : Fits(u, w)
    BY <2>1, DigestsSupplied
  <2> QED BY <1>3, <2>2, <2>3
<1>6. CASE u \in FixedUses
  <2>1. u.source = Issuer
    BY <1>6, FixedUseIs
  <2>2. \E w \in Exposure(Issuer) : Fits(u, w)
    BY <1>6, FixedSupplied
  <2> QED BY <1>3, <2>1, <2>2
<1>7. CASE HasRange /\ u \in {PayloadUse(Issuer), PayloadUse(Mso)}
  <2>1. PayloadUse(Issuer).source = Issuer /\ PayloadUse(Mso).source = Mso
    BY UseParts DEF PayloadUse
  <2>2. /\ \E w \in Exposure(Issuer) : Fits(PayloadUse(Issuer), w)
        /\ \E w \in Exposure(Mso) : Fits(PayloadUse(Mso), w)
    BY <1>7, PayloadSupplied
  <2> QED BY <1>3, <1>7, <2>1, <2>2
<1>8. CASE HasSignature /\ u = RangeUse
  <2>1. RangeUse.source = RevocationMessage
    BY UseParts DEF RangeUse
  <2>2. \E w \in Exposure(RevocationMessage) : Fits(RangeUse, w)
    BY <1>8, RangeSupplied
  <2> QED BY <1>3, <1>8, <2>1, <2>2
<1> QED BY <1>2, <1>4, <1>5, <1>6, <1>7, <1>8 DEF UseKinds

LEMMA DigestUseParts ==
    \A by, source, digest : /\ DigestUse(by, source, digest).source = source
                            /\ DigestUse(by, source, digest).digest = digest
BY DEF DigestUse

(* Each source's digest is asked for once, and is the hash of its message.    *)
LEMMA HonestDigestsMatch ==
    ASSUME HonestWork, NEW policy, NEW build, NEW revocation,
           Extraction(credential, policy, build, revocation)
    PROVE  DigestsMatch
<1> DEFINE itemUse(i) == DigestUse("window_bind", Item(i), rows.digests[i])
           deviceUse == DigestUse("digest_bind", Device, statement.deviceHash)
           issuerUse == IF statement.build = "legacy"
                        THEN DigestUse("digest_bind", Issuer, statement.issuerHash)
                        ELSE DigestUse("mac", Issuer, rows.mac[1])
           rangeUse == DigestUse("revocation_range", Mso, rows.range.digest)
           signedUse == DigestUse("digest_bind", RevocationMessage, statement.revocationHash)
<1>1. /\ preimages[Issuer] = credential.issuer /\ preimages[Device] = credential.device
      /\ HasRange => preimages[Mso] = credential.mso
      /\ HasSignature =>
            preimages[RevocationMessage] = statement.revocation.lo \o statement.revocation.hi
                                               \o statement.revocation.epoch
      /\ \A i \in Attributes : preimages[Item(i)] = credential.attributes[i].item
  BY HonestPreimages DEF HonestWork
<1>2. \A d : d \in DigestUses <=> \/ \E i \in Attributes : d = itemUse(i)
                                  \/ d = deviceUse \/ d = issuerUse
                                  \/ HasRange /\ d = rangeUse
                                  \/ HasSignature /\ d = signedUse
  BY DEF DigestUses
<1>3. /\ \A i : itemUse(i).source = Item(i) /\ itemUse(i).digest = rows.digests[i]
      /\ deviceUse.source = Device /\ deviceUse.digest = statement.deviceHash
      /\ issuerUse.source = Issuer
      /\ issuerUse.digest = IF statement.build = "legacy" THEN statement.issuerHash
                                                          ELSE rows.mac[1]
      /\ rangeUse.source = Mso /\ rangeUse.digest = rows.range.digest
      /\ signedUse.source = RevocationMessage /\ signedUse.digest = statement.revocationHash
  BY DigestUseParts
<1>4. \A i \in Attributes : itemUse(i).digest = Hash(preimages[Item(i)])
  <2> SUFFICES ASSUME NEW i \in Attributes PROVE rows.digests[i] = Hash(preimages[Item(i)])
    BY <1>3
  <2> DEFINE h == Hash(credential.attributes[i].item)
             o == Find(credential.issuer, h)
  <2>1. /\ statement.attributes[i].digest.offset = o /\ h \in Seq(Int) /\ Len(h) = DigestLen
        /\ Occurrences(preimages[Issuer], h) # {} /\ preimages[Issuer] \in Seq(Int)
    <3>1. /\ statement.attributes[i].digest
                 = Located(o, DigestAnchor(credential.attributes[i].digestId))
          /\ h \in Seq(Int) /\ Len(h) = DigestLen
          /\ ExtractableAttribute(credential, credential.attributes[i])
      BY AttributeIs
    <3>2. Occurrences(credential.issuer, h) # {}
      BY <3>1 DEF ExtractableAttribute
    <3>3. credential.issuer \in Seq(Int)
      BY CredentialIs
    <3> HIDE DEF h, o
    <3>4. statement.attributes[i].digest.offset = o
      BY <3>1 DEF Located
    <3> QED BY <1>1, <3>1, <3>2, <3>3, <3>4
  <2>2. rows.digests[i] = Bytes(Issuer, o, DigestLen)
    BY <2>1 DEF HonestWork, HonestRows, HonestDigests
  <2>3. o = Find(preimages[Issuer], h)
    BY <1>1
  <2> HIDE DEF h, o
  <2>4. Fits(Use("window_bind", Issuer, 0, h), Window(0, o, Len(h)))
    BY <2>1, <2>3, FoundFits
  <2>5. \A j \in 1 .. Len(h) : preimages[Issuer][o + j] = h[j]
    BY <2>4 DEF Fits, Use, Window
  <2>6. Bytes(Issuer, o, Len(h)) = h
    BY <2>1, <2>5, TextExtensionality DEF IsText
  <2> QED BY <1>1, <2>1, <2>2, <2>6 DEF h
<1>5. deviceUse.digest = Hash(preimages[Device])
  BY <1>1, <1>3, StatementIs
<1>6. issuerUse.digest = Hash(preimages[Issuer])
  <2>1. statement.issuerHash = Hash(preimages[Issuer])
    BY <1>1, StatementIs
  <2>2. statement.build \in {"legacy", "coprocessor"}
    BY StatementHasShape
  <2>3. statement.build = "coprocessor" => rows.mac[1] = statement.issuerHash
    BY DEF HonestWork, HonestRows, HonestMac
  <2> QED BY <1>3, <2>1, <2>2, <2>3
<1>7. HasRange => rangeUse.digest = Hash(preimages[Mso])
  BY <1>1, <1>3 DEF HonestWork, HonestRows, HonestRange
<1>8. HasSignature => signedUse.digest = Hash(preimages[RevocationMessage])
  <2>1. /\ statement.revocation = revocation
        /\ statement.revocationHash = Hash(revocation.lo \o revocation.hi \o revocation.epoch)
    BY StatementIs
  <2> QED BY <1>1, <1>3, <2>1
<1>9. /\ Issuer \in Sources /\ Device \in Sources
      /\ HasRange => Mso \in Sources
      /\ HasSignature => RevocationMessage \in Sources
      /\ \A i \in Attributes : Item(i) \in Sources
  BY DEF Sources
<1> HIDE DEF itemUse, deviceUse, issuerUse, rangeUse, signedUse
<1>10. \A d \in DigestUses : d.source \in Sources /\ d.digest = Hash(preimages[d.source])
  BY <1>2, <1>3, <1>4, <1>5, <1>6, <1>7, <1>8, <1>9
<1>11. \A s \in Sources : \E d \in DigestUses : d.source = s
  BY <1>2, <1>3, SourcesAre
<1>12. \A d, e \in DigestUses : d.source = e.source => d = e
  BY <1>2, <1>3, SourcesDiffer
<1> QED BY <1>10, <1>11, <1>12 DEF DigestsMatch

LEMMA HonestBalances ==
    ASSUME HonestWork, StatementIsExtracted
    PROVE  Balanced
<1>1. PICK policy, build, revocation : Extraction(credential, policy, build, revocation)
  BY DEF StatementIsExtracted
<1>2. AttributesShape /\ statement.build \in {"legacy", "coprocessor"}
  BY <1>1, StatementHasShape DEF StatementShape
<1>3. FieldsBalance
  BY <1>1, <1>2, WindowsUnique, UsesUnique, UsesSupplied, WindowsUsed, FieldsCancel
<1>4. DigestsBalance
  BY <1>1, HonestDigestsMatch, DigestsCancel
<1> QED BY <1>3, <1>4 DEF Balanced

-----------------------------------------------------------------------------
(* The honest prover's work, stage by stage.                                  *)

HonestSoFar ==
    /\ HonestMessages
    /\ stage \in AfterWindowBind => HonestDigests
    /\ stage \in AfterValidity => HonestDates
    /\ stage \in AfterPayload => HonestPayload
    /\ stage \in AfterRange => HonestRange
    /\ stage \in AfterAge => HonestBirth
    /\ stage \in AfterNationality => HonestCountry
    /\ stage \in AfterMac => HonestMac

HInv ==
    prover = "honest" =>
        HonestSoFar /\ verdict # "rejected" /\ (verdict = "refused" => ~ HonestRowsHold)

LEMMA HonestKept ==
    ASSUME UNCHANGED <<credential, statement, preimages>>
    PROVE  /\ HonestMessages => HonestMessages'
           /\ rows'.digests = rows.digests /\ HonestDigests => HonestDigests'
           /\ rows'.from = rows.from /\ rows'.until = rows.until /\ HonestDates => HonestDates'
           /\ rows'.payload = rows.payload /\ HonestPayload => HonestPayload'
           /\ rows'.range = rows.range /\ HonestRange => HonestRange'
           /\ rows'.birth = rows.birth /\ HonestBirth => HonestBirth'
           /\ rows'.country = rows.country /\ HonestCountry => HonestCountry'
           /\ rows'.mac = rows.mac /\ HonestMac => HonestMac'
<1>1. HonestMessages => HonestMessages'
  BY DEF HonestMessages, HonestMessage
<1>2. rows'.digests = rows.digests /\ HonestDigests => HonestDigests'
  BY DEF HonestDigests, Attributes, Bytes, Issuer
<1>3. rows'.from = rows.from /\ rows'.until = rows.until /\ HonestDates => HonestDates'
  BY DEF HonestDates, Bytes, Issuer
<1>4. rows'.payload = rows.payload /\ HonestPayload => HonestPayload'
  BY DEF HonestPayload, HasRange
<1>5. rows'.range = rows.range /\ HonestRange => HonestRange'
  BY DEF HonestRange, HasRange
<1>6. rows'.birth = rows.birth /\ HonestBirth => HonestBirth'
  BY DEF HonestBirth, AttributesOf, Attributes
<1>7. rows'.country = rows.country /\ HonestCountry => HonestCountry'
  BY DEF HonestCountry, AttributesOf, Attributes
<1>8. rows'.mac = rows.mac /\ HonestMac => HonestMac'
  BY DEF HonestMac
<1> QED BY <1>1, <1>2, <1>3, <1>4, <1>5, <1>6, <1>7, <1>8

LEMMA WindowBindHonest ==
    ASSUME IInv, HonestSoFar, prover = "honest", WindowBindWrites
    PROVE  HonestSoFar'
<1>1. /\ stage = "window_bind" /\ stage' = "validity"
      /\ UNCHANGED <<credential, statement, preimages>>
  BY DEF WindowBindWrites, Wrote
<1>2. DOMAIN rows = RowFields /\ HonestMessages
  BY <1>1 DEF IInv, HonestSoFar
<1>3. rows' = [rows EXCEPT !.digests =
                    [i \in Attributes |->
                        Bytes(Issuer, statement.attributes[i].digest.offset, DigestLen)]]
  BY DEF WindowBindWrites, RowChoices
<1>4. rows'.digests = [i \in Attributes |->
                          Bytes(Issuer, statement.attributes[i].digest.offset, DigestLen)]
  BY <1>2, <1>3 DEF RowFields
<1>5. HonestDigests'
  BY <1>1, <1>4 DEF HonestDigests, Attributes, Bytes, Issuer
<1>6. HonestMessages'
  BY <1>1, <1>2, HonestKept
<1> QED BY <1>1, <1>5, <1>6 DEF HonestSoFar

LEMMA ValidityHonest ==
    ASSUME IInv, HonestSoFar, prover = "honest", ValidityWrites
    PROVE  HonestSoFar'
<1>1. /\ stage = "validity" /\ stage' = "payload_bind"
      /\ UNCHANGED <<credential, statement, preimages>>
  BY DEF ValidityWrites, Wrote
<1>2. /\ DOMAIN rows = RowFields /\ HonestMessages
      /\ HonestDigests
  BY <1>1 DEF IInv, HonestSoFar
<1>3. rows' = [rows EXCEPT !.from = Bytes(Issuer, statement.from.offset, TextLen),
                          !.until = Bytes(Issuer, statement.until.offset, TextLen)]
  BY DEF ValidityWrites, RowChoices
<1>4. /\ rows'.from = Bytes(Issuer, statement.from.offset, TextLen)
      /\ rows'.until = Bytes(Issuer, statement.until.offset, TextLen)
      /\ rows'.digests = rows.digests
  BY <1>2, <1>3 DEF RowFields
<1>5. HonestDates'
  BY <1>1, <1>4 DEF HonestDates, Bytes, Issuer
<1>6. HonestMessages' /\ HonestDigests'
  BY <1>1, <1>2, <1>4, HonestKept
<1> QED BY <1>1, <1>5, <1>6 DEF HonestSoFar

LEMMA PayloadHonest ==
    ASSUME IInv, HonestSoFar, prover = "honest", PayloadBindWrites
    PROVE  HonestSoFar'
<1>1. /\ stage = "payload_bind" /\ stage' = "revocation_range"
      /\ UNCHANGED <<credential, statement, preimages>>
  BY DEF PayloadBindWrites, Wrote
<1>2. /\ DOMAIN rows = RowFields /\ HonestMessages
      /\ HonestDigests /\ HonestDates
  BY <1>1 DEF IInv, HonestSoFar
<1>3. CASE HasRange
  <2>1. rows' = [rows EXCEPT !.payload = credential.mso]
    BY <1>3 DEF PayloadBindWrites, RowChoices
  <2>2. /\ rows'.payload = credential.mso
        /\ rows'.digests = rows.digests
        /\ rows'.from = rows.from
        /\ rows'.until = rows.until
    BY <1>2, <2>1 DEF RowFields
  <2>3. HonestMessages' /\ HonestDigests' /\ HonestDates'
    BY <1>1, <1>2, <2>2, HonestKept
  <2>4. HonestPayload'
    BY <1>1, <2>2 DEF HonestPayload
  <2> QED BY <1>1, <2>3, <2>4 DEF HonestSoFar
<1>4. CASE ~ HasRange
  <2>1. rows' = rows
    BY <1>4 DEF PayloadBindWrites
  <2>2. HonestMessages' /\ HonestDigests' /\ HonestDates'
    BY <1>1, <1>2, <2>1, HonestKept
  <2>3. HonestPayload'
    BY <1>1, <1>4 DEF HonestPayload, HasRange
  <2> QED BY <1>1, <2>2, <2>3 DEF HonestSoFar
<1> QED BY <1>3, <1>4

LEMMA RangeHonest ==
    ASSUME IInv, HonestSoFar, prover = "honest", RangeWrites
    PROVE  HonestSoFar'
<1>1. /\ stage = "revocation_range" /\ stage' = "age"
      /\ UNCHANGED <<credential, statement, preimages>>
  BY DEF RangeWrites, Wrote
<1>2. /\ DOMAIN rows = RowFields /\ HonestMessages
      /\ HonestDigests /\ HonestDates /\ HonestPayload
  BY <1>1 DEF IInv, HonestSoFar
<1>3. CASE HasRange
  <2>1. rows' = [rows EXCEPT !.range =
                    [digest |-> Hash(credential.mso),
                     lo |-> statement.revocation.lo, hi |-> statement.revocation.hi]]
    BY <1>3 DEF RangeWrites, RowChoices
  <2>2. /\ rows'.range = [digest |-> Hash(credential.mso),
                            lo |-> statement.revocation.lo, hi |-> statement.revocation.hi]
        /\ rows'.digests = rows.digests
        /\ rows'.from = rows.from
        /\ rows'.until = rows.until
        /\ rows'.payload = rows.payload
    BY <1>2, <2>1 DEF RowFields
  <2>3. HonestMessages' /\ HonestDigests' /\ HonestDates' /\ HonestPayload'
    BY <1>1, <1>2, <2>2, HonestKept
  <2>4. HonestRange'
    BY <1>1, <2>2 DEF HonestRange
  <2> QED BY <1>1, <2>3, <2>4 DEF HonestSoFar
<1>4. CASE ~ HasRange
  <2>1. rows' = rows
    BY <1>4 DEF RangeWrites
  <2>2. HonestMessages' /\ HonestDigests' /\ HonestDates' /\ HonestPayload'
    BY <1>1, <1>2, <2>1, HonestKept
  <2>3. HonestRange'
    BY <1>1, <1>4 DEF HonestRange, HasRange
  <2> QED BY <1>1, <2>2, <2>3 DEF HonestSoFar
<1> QED BY <1>3, <1>4

LEMMA BirthHonest ==
    ASSUME IInv, HonestSoFar, prover = "honest", AgeWrites
    PROVE  HonestSoFar'
<1>1. /\ stage = "age" /\ stage' = "nationality"
      /\ UNCHANGED <<credential, statement, preimages>>
  BY DEF AgeWrites, Wrote
<1>2. /\ DOMAIN rows = RowFields /\ HonestMessages
      /\ HonestDigests /\ HonestDates /\ HonestPayload /\ HonestRange
  BY <1>1 DEF IInv, HonestSoFar
<1>3. CASE AttributesOf("age") # {}
  <2>1. PICK i \in AttributesOf("age") :
            rows' = [rows EXCEPT !.birth = credential.attributes[i].value]
    BY <1>3 DEF AgeWrites, RowChoices
  <2>2. /\ rows'.birth = credential.attributes[i].value
        /\ rows'.digests = rows.digests
        /\ rows'.from = rows.from
        /\ rows'.until = rows.until
        /\ rows'.payload = rows.payload
        /\ rows'.range = rows.range
    BY <1>2, <2>1 DEF RowFields
  <2>3. /\ HonestMessages' /\ HonestDigests' /\ HonestDates' /\ HonestPayload'
        /\ HonestRange'
    BY <1>1, <1>2, <2>2, HonestKept
  <2>4. HonestBirth'
    <3>1. \A j \in AttributesOf("age") : j = i
      BY <2>1, OnePredicate
    <3> QED BY <1>1, <2>2, <3>1 DEF HonestBirth, AttributesOf, Attributes
  <2> QED BY <1>1, <2>3, <2>4 DEF HonestSoFar
<1>4. CASE AttributesOf("age") = {}
  <2>1. rows' = rows
    BY <1>4 DEF AgeWrites
  <2>2. /\ HonestMessages' /\ HonestDigests' /\ HonestDates' /\ HonestPayload'
        /\ HonestRange'
    BY <1>1, <1>2, <2>1, HonestKept
  <2>3. HonestBirth'
    BY <1>1, <1>4 DEF HonestBirth, AttributesOf, Attributes
  <2> QED BY <1>1, <2>2, <2>3 DEF HonestSoFar
<1> QED BY <1>3, <1>4

LEMMA CountryHonest ==
    ASSUME IInv, HonestSoFar, prover = "honest", NationalityWrites
    PROVE  HonestSoFar'
<1>1. /\ stage = "nationality" /\ stage' = "mac"
      /\ UNCHANGED <<credential, statement, preimages>>
  BY DEF NationalityWrites, Wrote
<1>2. /\ DOMAIN rows = RowFields /\ HonestMessages
      /\ HonestDigests /\ HonestDates /\ HonestPayload /\ HonestRange /\ HonestBirth
  BY <1>1 DEF IInv, HonestSoFar
<1>3. CASE AttributesOf("alpha2") # {}
  <2>1. PICK i \in AttributesOf("alpha2") :
            rows' = [rows EXCEPT !.country = credential.attributes[i].value]
    BY <1>3 DEF NationalityWrites, RowChoices
  <2>2. /\ rows'.country = credential.attributes[i].value
        /\ rows'.digests = rows.digests
        /\ rows'.from = rows.from
        /\ rows'.until = rows.until
        /\ rows'.payload = rows.payload
        /\ rows'.range = rows.range
        /\ rows'.birth = rows.birth
    BY <1>2, <2>1 DEF RowFields
  <2>3. /\ HonestMessages' /\ HonestDigests' /\ HonestDates' /\ HonestPayload'
        /\ HonestRange' /\ HonestBirth'
    BY <1>1, <1>2, <2>2, HonestKept
  <2>4. HonestCountry'
    <3>1. \A j \in AttributesOf("alpha2") : j = i
      BY <2>1, OnePredicate
    <3> QED BY <1>1, <2>2, <3>1 DEF HonestCountry, AttributesOf, Attributes
  <2> QED BY <1>1, <2>3, <2>4 DEF HonestSoFar
<1>4. CASE AttributesOf("alpha2") = {}
  <2>1. rows' = rows
    BY <1>4 DEF NationalityWrites
  <2>2. /\ HonestMessages' /\ HonestDigests' /\ HonestDates' /\ HonestPayload'
        /\ HonestRange' /\ HonestBirth'
    BY <1>1, <1>2, <2>1, HonestKept
  <2>3. HonestCountry'
    BY <1>1, <1>4 DEF HonestCountry, AttributesOf, Attributes
  <2> QED BY <1>1, <2>2, <2>3 DEF HonestSoFar
<1> QED BY <1>3, <1>4

LEMMA MacHonest ==
    ASSUME IInv, HonestSoFar, prover = "honest", MacWrites
    PROVE  HonestSoFar'
<1>1. /\ stage = "mac" /\ stage' = "verify"
      /\ UNCHANGED <<credential, statement, preimages>>
  BY DEF MacWrites, Wrote
<1>2. /\ DOMAIN rows = RowFields /\ HonestMessages
      /\ HonestDigests /\ HonestDates /\ HonestPayload /\ HonestRange /\ HonestBirth /\ HonestCountry
  BY <1>1 DEF IInv, HonestSoFar
<1>3. CASE statement.build = "coprocessor"
  <2>1. rows' = [rows EXCEPT !.mac =
                    <<statement.issuerHash, statement.deviceKey[1], statement.deviceKey[2]>>]
    BY <1>3 DEF MacWrites, RowChoices
  <2>2. /\ rows'.mac = <<statement.issuerHash, statement.deviceKey[1], statement.deviceKey[2]>>
        /\ rows'.digests = rows.digests
        /\ rows'.from = rows.from
        /\ rows'.until = rows.until
        /\ rows'.payload = rows.payload
        /\ rows'.range = rows.range
        /\ rows'.birth = rows.birth
        /\ rows'.country = rows.country
    BY <1>2, <2>1 DEF RowFields
  <2>3. /\ HonestMessages' /\ HonestDigests' /\ HonestDates' /\ HonestPayload'
        /\ HonestRange' /\ HonestBirth' /\ HonestCountry'
    BY <1>1, <1>2, <2>2, HonestKept
  <2>4. HonestMac'
    BY <1>1, <2>2 DEF HonestMac
  <2> QED BY <1>1, <2>3, <2>4 DEF HonestSoFar
<1>4. CASE statement.build # "coprocessor"
  <2>1. rows' = rows
    BY <1>4 DEF MacWrites
  <2>2. /\ HonestMessages' /\ HonestDigests' /\ HonestDates' /\ HonestPayload'
        /\ HonestRange' /\ HonestBirth' /\ HonestCountry'
    BY <1>1, <1>2, <2>1, HonestKept
  <2>3. HonestMac'
    BY <1>1, <1>4 DEF HonestMac
  <2> QED BY <1>1, <2>2, <2>3 DEF HonestSoFar
<1> QED BY <1>3, <1>4

LEMMA ShaHonest ==
    ASSUME IInv, HonestSoFar, prover = "honest", NEW s \in Sources, ShaWrites(s)
    PROVE  HonestSoFar'
<1>1. /\ stage' \in {"sha", "window_bind"} /\ UNCHANGED <<credential, statement>>
      /\ HonestMessages
  BY DEF ShaWrites, HonestSoFar
<1>2. preimages' = [t \in DOMAIN preimages \cup {s} |->
                       IF t = s THEN HonestMessage(s) ELSE preimages[t]]
  BY DEF ShaWrites, RowChoices
<1>3. \A t : HonestMessage(t)' = HonestMessage(t)
  BY <1>1 DEF HonestMessage
<1>4. \A t \in DOMAIN preimages' : preimages'[t] = HonestMessage(t)
  BY <1>1, <1>2 DEF HonestMessages
<1>5. HonestMessages'
  BY <1>3, <1>4 DEF HonestMessages
<1> QED BY <1>1, <1>5 DEF HonestSoFar

LEMMA NextHInv == IInv /\ HInv /\ [Next]_vars => HInv'
<1> SUFFICES ASSUME IInv, HInv, [Next]_vars, prover' = "honest"
             PROVE  /\ HonestSoFar' /\ verdict' # "rejected"
                    /\ verdict' = "refused" => ~ HonestRowsHold'
  BY DEF HInv
<1>0. UNCHANGED <<credential, statement>> => HonestRowsHold' = HonestRowsHold
  BY DEF HonestRowsHold, HasRange, AttributesOf, Attributes, BirthRow, CountryRow
<1>1. CASE UNCHANGED vars
  <2>1. UNCHANGED <<credential, statement, prover, preimages, rows, stage, verdict>>
    BY <1>1 DEF vars
  <2>2. HonestSoFar /\ verdict # "rejected" /\ (verdict = "refused" => ~ HonestRowsHold)
    BY <2>1 DEF HInv
  <2>3. HonestSoFar'
    BY <2>1, <2>2, HonestKept DEF HonestSoFar
  <2> QED BY <1>0, <2>1, <2>2, <2>3
<1>2. CASE Next
  <2>1. prover' = prover
    BY <1>2 DEF Next, ShaWrites, WindowBindWrites, ValidityWrites, PayloadBindWrites,
                RangeWrites, AgeWrites, NationalityWrites, MacWrites, Refuses, Verify, Wrote
  <2>2. prover = "honest" /\ HonestSoFar /\ verdict # "rejected"
    BY <2>1 DEF HInv
  <2>3. CASE \E s \in Sources : ShaWrites(s)
    <3>1. PICK s \in Sources : ShaWrites(s)
      BY <2>3
    <3>2. verdict' = verdict
      BY <3>1 DEF ShaWrites
    <3>3. stage = "sha"
      BY <3>1 DEF ShaWrites
    <3>4. verdict = "open"
      BY <3>3 DEF IInv, TypeOK
    <3> QED BY <2>2, <3>1, <3>2, <3>4, ShaHonest
  <2>o. ASSUME NEW name, NEW next, Wrote(name, next), name # "end"
        PROVE  verdict' = "open"
    BY <2>o DEF Wrote, IInv, TypeOK
  <2>4. CASE WindowBindWrites
    <3>1. verdict' = "open"
      BY <2>4, <2>o DEF WindowBindWrites
    <3> QED BY <2>2, <2>4, <3>1, WindowBindHonest
  <2>5. CASE ValidityWrites
    <3>1. verdict' = "open"
      BY <2>5, <2>o DEF ValidityWrites
    <3> QED BY <2>2, <2>5, <3>1, ValidityHonest
  <2>6. CASE PayloadBindWrites
    <3>1. verdict' = "open"
      BY <2>6, <2>o DEF PayloadBindWrites
    <3> QED BY <2>2, <2>6, <3>1, PayloadHonest
  <2>7. CASE RangeWrites
    <3>1. verdict' = "open"
      BY <2>7, <2>o DEF RangeWrites
    <3> QED BY <2>2, <2>7, <3>1, RangeHonest
  <2>8. CASE AgeWrites
    <3>1. verdict' = "open"
      BY <2>8, <2>o DEF AgeWrites
    <3> QED BY <2>2, <2>8, <3>1, BirthHonest
  <2>9. CASE NationalityWrites
    <3>1. verdict' = "open"
      BY <2>9, <2>o DEF NationalityWrites
    <3> QED BY <2>2, <2>9, <3>1, CountryHonest
  <2>10. CASE MacWrites
    <3>1. verdict' = "open"
      BY <2>10, <2>o DEF MacWrites
    <3> QED BY <2>2, <2>10, <3>1, MacHonest
  <2>11. CASE Refuses
    <3>1. /\ stage' = "end" /\ verdict' = "refused" /\ ~ HonestRowsHold
          /\ UNCHANGED <<credential, statement, preimages>>
      BY <2>11 DEF Refuses
    <3>2. HonestMessages'
      BY <2>2, <3>1, HonestKept DEF HonestSoFar
    <3>3. HonestSoFar'
      BY <3>1, <3>2 DEF HonestSoFar
    <3> QED BY <1>0, <3>1, <3>3
  <2>12. CASE Verify
    <3>1. /\ stage = "verify" /\ stage' = "end"
          /\ verdict' = IF Balanced THEN "accepted" ELSE "rejected"
          /\ UNCHANGED <<credential, statement, preimages>>
      BY <2>12 DEF Verify
    <3>2. DOMAIN preimages = Sources /\ StatementIsExtracted
      BY <3>1 DEF IInv, TypeOK
    <3>3. HonestWork
      BY <2>2, <3>1, <3>2 DEF HonestSoFar, HonestWork, HonestRows
    <3>4. verdict' = "accepted"
      BY <3>1, <3>2, <3>3, HonestBalances
    <3>5. HonestMessages'
      BY <2>2, <3>1, HonestKept DEF HonestSoFar
    <3> QED BY <3>1, <3>4, <3>5 DEF HonestSoFar
  <2> QED BY <1>2, <2>3, <2>4, <2>5, <2>6, <2>7, <2>8, <2>9, <2>10, <2>11, <2>12 DEF Next
<1> QED BY <1>1, <1>2

(* A row that is refused says why: the byte chains have no carries and slacks *)
(* only when the numbers are not in order.                                    *)
LEMMA RefusalIsDue ==
    ASSUME StatementIsExtracted, ~ HonestRowsHold
    PROVE  \/ /\ HasRange
              /\ ~ Between(statement.revocation.lo, Hash(credential.mso),
                           statement.revocation.hi)
           \/ \E i \in AttributesOf("age") : ~ BirthRow(credential.attributes[i].value)
           \/ \E i \in AttributesOf("alpha2") : ~ CountryRow(credential.attributes[i].value)
<1> DEFINE lo == statement.revocation.lo
           hi == statement.revocation.hi
           digest == Hash(credential.mso)
<1>1. HasRange => (RangeRow([digest |-> digest, lo |-> lo, hi |-> hi])
                      <=> Between(lo, digest, hi))
  <2> SUFFICES ASSUME HasRange
               PROVE  RangeRow([digest |-> digest, lo |-> lo, hi |-> hi])
                          <=> Between(lo, digest, hi)
    OBVIOUS
  <2>1. /\ digest \in Seq(Int) /\ Len(digest) = DigestLen
        /\ Len(lo) = IdLen /\ Len(hi) = IdLen
        /\ \A j \in 1 .. IdLen : digest[j] \in Byte /\ lo[j] \in Byte /\ hi[j] \in Byte
    BY RangeIsBytes
  <2> HIDE DEF lo, hi, digest
  <2> QED BY <2>1, RangeRowIsBetween
<1> QED BY <1>1 DEF HonestRowsHold

(* No list of windows and no list of readers loses or doubles a byte: what an *)
(* honest prover writes for an extracted credential always cancels, in both   *)
(* builds, for every choice of disclosed attributes and every revocation kind.*)
THEOREM HonestProofsBalance == Spec => []HonestIsAccepted
<1>1. Init => HInv
  <2> SUFFICES ASSUME Init PROVE HInv
    OBVIOUS
  <2>1. stage = "sha" /\ verdict = "open" /\ preimages = <<>>
    BY DEF Init
  <2>2. DOMAIN preimages = {}
    BY <2>1
  <2>3. HonestMessages
    BY <2>2 DEF HonestMessages
  <2> QED BY <2>1, <2>3 DEF HInv, HonestSoFar
<1>2. IInv /\ HInv => HonestIsAccepted
  BY RefusalIsDue DEF HInv, IInv, HonestIsAccepted
<1> QED BY <1>1, <1>2, Inductive, NextHInv, PTL DEF Spec
=============================================================================
