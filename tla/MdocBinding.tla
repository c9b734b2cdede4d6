----------------------------- MODULE MdocBinding -----------------------------
(* Which bytes of the credential each module of an mdoc proof reads.          *)
(*                                                                            *)
(* Every SHA-256 module yields the digest of its message and, byte by byte,   *)
(* windows of it; the binding modules and the predicates require digests and  *)
(* window bytes. A yield and a requirement cancel when relation, field id,    *)
(* index and value are equal, and the verifier accepts when everything        *)
(* cancels (eu-id-prover/src/mdoc.rs, mdoc_window_bind.rs, mdoc_validity.rs,  *)
(* mdoc_mac.rs, public_digest_bind.rs, air-core/src/relations.rs). The lists  *)
(* of windows on either side are written in different functions of different  *)
(* files and meet nowhere but in that sum.                                    *)
(*                                                                            *)
(* An honest prover extracts a credential, derives the statement's offsets    *)
(* from it and fills the rows; any other prover is free in the messages it    *)
(* hashes and in every private cell. Bytes are integers; a CBOR text label is *)
(* one symbol, above all bytes. What SHA-256's own trace guarantees about a   *)
(* yield is Sha256Trace's matter, the order of the modules MdocPipeline's.    *)
EXTENDS MdocValidity, FiniteSets

CONSTANTS
    Credentials,     \* extracted credentials (see Extractable)
    Policies,        \* [date, oldEnough, accepted]: the date, births, codes
    Builds,          \* a subset of {"legacy", "coprocessor"}
    Revocations,     \* [kind, lo, hi, epoch], kind "none", "range" or "signed"
    Messages,        \* what a dishonest prover may hash, by kind of source
    Cells,           \* what it may put into a row, as byte sequences
    Hash(_),         \* SHA-256
    DigestLen,       \* 32 in the code
    IdLen            \* bytes of a revocation id, 8 in the code

MaxPolicyYear == 9999    \* policy_date_tuple

(* The date of a policy is a calendar date (policy_date_tuple bounds its year;*)
(* month and day are the relying party's), and everything else has its type.  *)
ASSUME PoliciesAssumption ==
    \A p \in Policies :
        p.date[1] \in 0 .. MaxPolicyYear /\ p.date[2] \in 1 .. 12 /\ p.date[3] \in 1 .. 31
ASSUME BuildsAssumption == Builds \subseteq {"legacy", "coprocessor"}
ASSUME LengthsAssumption == DigestLen \in Nat /\ IdLen \in 1 .. DigestLen
ASSUME CellsAssumption == Cells \subseteq Seq(Int)
ASSUME RevocationsAssumption ==
    \A r \in Revocations : r.lo \in Seq(Int) /\ r.hi \in Seq(Int) /\ r.epoch \in Seq(Int)
ASSUME CredentialsAssumption ==
    \A c \in Credentials :
        /\ c.mso \in Seq(Int) /\ c.keyX \in Seq(Int) /\ c.keyY \in Seq(Int)
        /\ DOMAIN c.attributes = 1 .. Len(c.attributes)
        /\ \A i \in DOMAIN c.attributes :
              LET a == c.attributes[i] IN
              /\ a.mode \in {"age", "alpha2", "equality"}
              /\ a.element \in Seq(Int) /\ a.value \in Seq(Int)
              /\ a.headLen \in 0 .. Len(a.value) /\ a.digestId \in Nat
(* Digests, coordinates and ids have the widths of their arrays in the code.  *)
ASSUME WidthsAssumption ==
    /\ \A c \in Credentials :
          /\ c.issuer \in Seq(Int) /\ Len(c.keyX) = DigestLen /\ Len(c.keyY) = DigestLen
          /\ \A i \in DOMAIN c.attributes :
                LET a == c.attributes[i] IN
                /\ a.item \in Seq(Int)
                /\ Hash(a.item) \in Seq(Int) /\ Len(Hash(a.item)) = DigestLen
    /\ \A r \in Revocations :
          /\ r.kind # "none" => Len(r.lo) = IdLen /\ Len(r.hi) = IdLen
          /\ r.kind = "signed" => Len(r.epoch) = 4
(* What a revocation range compares are bytes.                                *)
ASSUME BytesAssumption ==
    /\ \A c \in Credentials : Hash(c.mso) \in Seq(0 .. 255) /\ Len(Hash(c.mso)) = DigestLen
    /\ \A r \in Revocations :
          r.kind # "none" => r.lo \in Seq(0 .. 255) /\ r.hi \in Seq(0 .. 255)

VARIABLES
    credential,      \* what the statement was made from
    statement,       \* what the verifier has
    prover,          \* "honest" or "any"
    preimages,       \* the message of every SHA-256 module
    rows,            \* the private cells of the modules that wrote their trace
    stage,           \* the module that writes next
    verdict          \* "open", "accepted", "rejected" or "refused"

vars == <<credential, statement, prover, preimages, rows, stage, verdict>>

-----------------------------------------------------------------------------
(* Field ids: air_core::relations::field_id and the constants of mdoc.rs.     *)

DOB == 0
NATIONALITY == 1
DEVICE_KEY_X == 6
DEVICE_KEY_Y == 7
VALID_FROM == 8
VALID_UNTIL == 9
DEVICE_KEY_X_ANCHOR == 12
DEVICE_KEY_Y_ANCHOR == 13
VALID_FROM_ANCHOR == 14
VALID_UNTIL_ANCHOR == 15
MSO_PAYLOAD == 40
REVOCATION_MESSAGE == 41
MAX_DISCLOSED_ATTRIBUTES == 4

ElementField(i)       == 15 + i
ValueField(i)         == 19 + i
DigestFieldWithoutIndex(i) == 24     \* mutant: one id for all digests
DigestField(i)        == 23 + i
DigestAnchorField(i)  == 27 + i
ValueHeadField(i)     == 31 + i
ElementAnchorField(i) == 35 + i

(* CBOR heads and labels. A label is one symbol.                              *)
ValidFromLabel == 301
ValidUntilLabel == 302
ElementIdentifierLabel == 303

CborUintKey(n) ==
    CASE n < 24 -> <<n>>
      [] 24 <= n /\ n < 256 -> <<24, n>>
      [] 256 <= n /\ n < 256 * 256 -> <<25, n \div 256, n % 256>>
      [] 256 * 256 <= n -> <<26, n \div (256 * 256 * 256), (n \div (256 * 256)) % 256,
                             (n \div 256) % 256, n % 256>>

DigestAnchor(id)   == CborUintKey(id) \o <<88, 32>>
TdateAnchor(label) == <<label, 192, 116>>
CborTextHead(len)  == IF len < 24 THEN <<96 + len>> ELSE <<120, len>>   \* below 256
ElementAnchor(e)   == <<ElementIdentifierLabel>> \o CborTextHead(Len(e))
KeyXAnchor == <<33, 88, 32>>
KeyYAnchor == <<34, 88, 32>>

-----------------------------------------------------------------------------
(* Extraction: extract_pid_mdoc and MdocCircuitStatement::from_extracted.     *)

Occurrences(hay, needle) ==
    {o \in 0 .. Len(hay) - Len(needle) : \A j \in DOMAIN needle : hay[o + j] = needle[j]}

(* find_subslice: the first occurrence.                                       *)
Find(hay, needle) ==
    CHOOSE o \in Occurrences(hay, needle) : \A p \in Occurrences(hay, needle) : o <= p

(* anchor_before_offset: the anchor's bytes end where the value begins.       *)
AnchorFits(hay, offset, anchor) ==
    /\ offset >= Len(anchor)
    /\ offset - Len(anchor) \in Occurrences(hay, anchor)

(* labeled_tdate_date_offset, in the MSO.                                     *)
AfterLabel(mso, label, text) ==
    {o \in Occurrences(mso, text) : o > Find(mso, <<label>>)}
DateOffset(c, label, text) ==
    Find(c.issuer, c.mso)
        + (CHOOSE o \in AfterLabel(c.mso, label, text) :
              \A p \in AfterLabel(c.mso, label, text) : o <= p)

(* Everything from_extracted refuses: a date outside of the validity, a value *)
(* that is not found, and an anchor that is not where it must be.             *)
ExtractableAttribute(c, a) ==
    /\ Len(a.element) <= 32
    /\ a.mode = "equality" => Len(a.value) <= 32
    /\ Occurrences(a.item, a.element) # {} /\ Occurrences(a.item, a.value) # {}
    /\ Occurrences(c.issuer, Hash(a.item)) # {}
    /\ AnchorFits(c.issuer, Find(c.issuer, Hash(a.item)), DigestAnchor(a.digestId))
    /\ AnchorFits(a.item, Find(a.item, a.element), ElementAnchor(a.element))

ExtractableDate(c, label, text) ==
    /\ Occurrences(c.mso, <<label>>) # {} /\ AfterLabel(c.mso, label, text) # {}
    /\ AnchorFits(c.issuer, DateOffset(c, label, text), TdateAnchor(label))

Extractable(c, policy) ==
    /\ Len(c.attributes) \in 1 .. MAX_DISCLOSED_ATTRIBUTES
    /\ \A i, j \in DOMAIN c.attributes :
          c.attributes[i].mode = c.attributes[j].mode /\ c.attributes[i].mode # "equality"
              => i = j
    /\ NotLater(TextDate(c.validFrom), policy.date)
    /\ NotLater(policy.date, TextDate(c.validUntil))
    /\ \A i \in DOMAIN c.attributes : ExtractableAttribute(c, c.attributes[i])
    /\ Occurrences(c.issuer, c.mso) # {}
    /\ Occurrences(c.issuer, c.keyX) # {} /\ Occurrences(c.issuer, c.keyY) # {}
    /\ AnchorFits(c.issuer, Find(c.issuer, c.keyX), KeyXAnchor)
    /\ AnchorFits(c.issuer, Find(c.issuer, c.keyY), KeyYAnchor)
    /\ ExtractableDate(c, ValidFromLabel, c.validFrom)
    /\ ExtractableDate(c, ValidUntilLabel, c.validUntil)

Located(offset, anchor) ==
    [offset |-> offset, anchor |-> anchor, anchorOffset |-> offset - Len(anchor)]

StatementAttribute(c, a) ==
    [mode    |-> a.mode,
     element |-> a.element,
     name    |-> Located(Find(a.item, a.element), ElementAnchor(a.element)),
     value   |-> a.value,
     head    |-> SubSeq(a.value, 1, a.headLen),
     valueOffset |-> Find(a.item, a.value),
     digest  |-> Located(Find(c.issuer, Hash(a.item)), DigestAnchor(a.digestId))]

FromExtracted(c, policy, build, revocation) ==
    [attributes |-> [i \in DOMAIN c.attributes |-> StatementAttribute(c, c.attributes[i])],
     keyX  |-> Located(Find(c.issuer, c.keyX), KeyXAnchor),
     keyY  |-> Located(Find(c.issuer, c.keyY), KeyYAnchor),
     from  |-> Located(DateOffset(c, ValidFromLabel, c.validFrom), TdateAnchor(ValidFromLabel)),
     until |-> Located(DateOffset(c, ValidUntilLabel, c.validUntil), TdateAnchor(ValidUntilLabel)),
     payload    |-> [offset |-> Find(c.issuer, c.mso), len |-> Len(c.mso)],
     issuerHash |-> Hash(c.issuer),
     deviceHash |-> Hash(c.device),
     deviceKey  |-> <<c.keyX, c.keyY>>,
     revocation |-> revocation,
     revocationHash |-> Hash(revocation.lo \o revocation.hi \o revocation.epoch),
     build  |-> build,
     policy |-> policy]

-----------------------------------------------------------------------------
(* The windows a SHA-256 module exposes, one list per source.                 *)

Issuer == <<"issuer">>
Device == <<"device">>
Mso == <<"mso">>
RevocationMessage == <<"revocation">>
Item(i) == <<"item", i>>

Attributes == DOMAIN statement.attributes
HasRange == statement.revocation.kind # "none"
HasSignature == statement.revocation.kind = "signed"

Sources ==
    {Issuer, Device} \cup {Item(i) : i \in Attributes}
        \cup (IF HasRange THEN {Mso} ELSE {})
        \cup (IF HasSignature THEN {RevocationMessage} ELSE {})

Window(field, offset, len) == [field |-> field, offset |-> offset, len |-> len]
Value(field, located, len) == Window(field, located.offset, len)
Anchor(field, located) == Window(field, located.anchorOffset, Len(located.anchor))

AttributeExposure(i) ==
    LET a == statement.attributes[i] IN
    {Value(ElementField(i), a.name, Len(a.element)), Anchor(ElementAnchorField(i), a.name)}
        \cup (CASE a.mode = "age"      -> {Window(DOB, a.valueOffset, Len(a.value))}
                [] a.mode = "alpha2"   -> {Window(NATIONALITY, a.valueOffset, Len(a.value))}
                [] a.mode = "equality" ->
                       {Window(ValueField(i), a.valueOffset, Len(a.value)),
                        Window(ValueHeadField(i), a.valueOffset, Len(a.head))})

IssuerMsoExposure ==
    {Value(DigestField(i), statement.attributes[i].digest, DigestLen) : i \in Attributes}
        \cup {Anchor(DigestAnchorField(i), statement.attributes[i].digest) : i \in Attributes}
        \cup {Value(DEVICE_KEY_X, statement.keyX, DigestLen),
              Value(DEVICE_KEY_Y, statement.keyY, DigestLen),
              Value(VALID_FROM, statement.from, TextLen),
              Value(VALID_UNTIL, statement.until, TextLen),
              Anchor(DEVICE_KEY_X_ANCHOR, statement.keyX),
              Anchor(DEVICE_KEY_Y_ANCHOR, statement.keyY),
              Anchor(VALID_FROM_ANCHOR, statement.from),
              Anchor(VALID_UNTIL_ANCHOR, statement.until)}
        \cup (IF HasRange THEN {Value(MSO_PAYLOAD, statement.payload, statement.payload.len)}
                          ELSE {})

RevocationMessageLen == 2 * IdLen + 4

Exposure(s) ==
    CASE s[1] = "issuer" -> IssuerMsoExposure
      [] s[1] = "device" -> {}
      [] s[1] = "mso" -> {Window(MSO_PAYLOAD, 0, statement.payload.len)}
      [] s[1] = "revocation" -> {Window(REVOCATION_MESSAGE, 0, RevocationMessageLen)}
      [] s[1] = "item" -> AttributeExposure(s[2])

-----------------------------------------------------------------------------
(* What the other modules require. A use names its module, the source whose   *)
(* relation it reads, the field and the cells it puts there.                  *)

Use(by, source, field, cells) ==
    [by |-> by, source |-> source, field |-> field, cells |-> cells]

(* mdoc_window_bind_rows_from: constants, and one digest row per attribute.   *)
AttributeRows(i) ==
    LET a == statement.attributes[i]
        Bind(source, field, bytes) == Use("window_bind", source, field, bytes)
    IN  {Bind(Item(i), ElementField(i), a.element),
         Bind(Item(i), ElementAnchorField(i), a.name.anchor),
         Bind(Issuer, DigestField(i), rows.digests[i]),
         Bind(Issuer, DigestAnchorField(i), a.digest.anchor)}
            \cup (IF a.mode = "equality"
                  THEN {Bind(Item(i), ValueField(i), a.value),
                        Bind(Item(i), ValueHeadField(i), a.head)}
                  ELSE {})

WindowBindUses ==
    (UNION {AttributeRows(i) : i \in Attributes})
        \cup {Use("window_bind", Issuer, DEVICE_KEY_X_ANCHOR, statement.keyX.anchor),
              Use("window_bind", Issuer, DEVICE_KEY_Y_ANCHOR, statement.keyY.anchor),
              Use("window_bind", Issuer, VALID_FROM_ANCHOR, statement.from.anchor),
              Use("window_bind", Issuer, VALID_UNTIL_ANCHOR, statement.until.anchor)}
        \cup (IF statement.build = "legacy"
              THEN {Use("window_bind", Issuer, DEVICE_KEY_X, statement.deviceKey[1]),
                    Use("window_bind", Issuer, DEVICE_KEY_Y, statement.deviceKey[2])}
              ELSE {})

ValidityUses ==
    {Use("validity", Issuer, VALID_FROM, rows.from),
     Use("validity", Issuer, VALID_UNTIL, rows.until)}

(* Mutant: the coordinates of the key are swapped.                            *)
MacUsesSwapped ==
    IF statement.build = "coprocessor"
    THEN {Use("mac", Issuer, DEVICE_KEY_X, rows.mac[3]),
          Use("mac", Issuer, DEVICE_KEY_Y, rows.mac[2])}
    ELSE {}

(* MacBindingEval: the digest and the key that the coprocessor's MAC covers.  *)
MacUses ==
    IF statement.build = "coprocessor"
    THEN {Use("mac", Issuer, DEVICE_KEY_X, rows.mac[2]),
          Use("mac", Issuer, DEVICE_KEY_Y, rows.mac[3])}
    ELSE {}

(* Mutant: the payload is required only when the range is also signed.        *)
PayloadUsesWhenSigned ==
    IF HasSignature
    THEN {Use("payload_bind", Issuer, MSO_PAYLOAD, rows.payload),
          Use("payload_bind", Mso, MSO_PAYLOAD, rows.payload)}
    ELSE {}

PayloadUses ==
    IF HasRange
    THEN {Use("payload_bind", Issuer, MSO_PAYLOAD, rows.payload),
          Use("payload_bind", Mso, MSO_PAYLOAD, rows.payload)}
    ELSE {}

RangeUses ==
    IF HasSignature
    THEN {Use("revocation_range", RevocationMessage, REVOCATION_MESSAGE,
              rows.range.lo \o rows.range.hi \o statement.revocation.epoch)}
    ELSE {}

PredicateUses ==
    {Use("age", Item(i), DOB, rows.birth) :
        i \in {i \in Attributes : statement.attributes[i].mode = "age"}}
    \cup {Use("nationality", Item(i), NATIONALITY, rows.country) :
        i \in {i \in Attributes : statement.attributes[i].mode = "alpha2"}}

FieldUses ==
    WindowBindUses \cup ValidityUses \cup MacUses \cup PayloadUses \cup RangeUses
        \cup PredicateUses

(* The digests required: constants by PublicDigestBind and by the legacy      *)
(* build's DigestBind, cells by the window rows, the MAC and the range.       *)
DigestUse(by, source, digest) == [by |-> by, source |-> source, digest |-> digest]

DigestUses ==
    {DigestUse("window_bind", Item(i), rows.digests[i]) : i \in Attributes}
    \cup {DigestUse("digest_bind", Device, statement.deviceHash)}
    \cup (IF statement.build = "legacy"
          THEN {DigestUse("digest_bind", Issuer, statement.issuerHash)}
          ELSE {DigestUse("mac", Issuer, rows.mac[1])})
    \cup (IF HasRange THEN {DigestUse("revocation_range", Mso, rows.range.digest)} ELSE {})
    \cup (IF HasSignature
          THEN {DigestUse("digest_bind", RevocationMessage, statement.revocationHash)}
          ELSE {})

-----------------------------------------------------------------------------
(* The sum over all relations: a tuple is yielded as often as it is required. *)

YieldSites ==
    UNION {UNION {{s} \X {w} \X (1 .. w.len) : w \in Exposure(s)} : s \in Sources}
UseSites == UNION {{u} \X (1 .. Len(u.cells)) : u \in FieldUses}

YieldTuple(y) ==
    LET s == y[1]  w == y[2]  j == y[3] IN <<s, w.field, j, preimages[s][w.offset + j]>>
UseTuple(x) == LET u == x[1]  j == x[2] IN <<u.source, u.field, j, u.cells[j]>>

YieldedDigests(t) == {s \in Sources : <<s, Hash(preimages[s])>> = t}
UsedDigests(t) == {d \in DigestUses : <<d.source, d.digest>> = t}

FieldsBalance ==
    \A t \in {YieldTuple(y) : y \in YieldSites} \cup {UseTuple(x) : x \in UseSites} :
        Cardinality({y \in YieldSites : YieldTuple(y) = t})
            = Cardinality({x \in UseSites : UseTuple(x) = t})

DigestsBalance ==
    \A t \in {<<s, Hash(preimages[s])>> : s \in Sources}
               \cup {<<d.source, d.digest>> : d \in DigestUses} :
        Cardinality(YieldedDigests(t)) = Cardinality(UsedDigests(t))

Balanced == FieldsBalance /\ DigestsBalance

-----------------------------------------------------------------------------
(* The prover's rows.                                                         *)

Bytes(s, offset, len) == [j \in 1 .. len |-> preimages[s][offset + j]]

CellsOf(len) == {c \in Cells : Len(c) = len}
RowChoices(own, free) == IF prover = "honest" THEN {own} ELSE free

HonestMessage(s) ==
    CASE s = Issuer -> credential.issuer
      [] s = Device -> credential.device
      [] s = Mso -> credential.mso
      [] s = RevocationMessage ->
             statement.revocation.lo \o statement.revocation.hi \o statement.revocation.epoch
      [] OTHER -> credential.attributes[s[2]].item

(* A window past the end of the message would show padding, or no byte at all *)
(* (Sha256Trace); here every message reaches to the end of its windows.       *)
Covers(s, m) == \A w \in Exposure(s) : w.offset + w.len <= Len(m)

(* A number from its bytes, the lowest first.                                 *)
NumberLE(b) ==
    LET v[n \in 0 .. Len(b)] == IF n = 0 THEN 0 ELSE 256 * v[n - 1] + b[Len(b) - n + 1]
    IN  v[Len(b)]

Byte == 0 .. 255

(* Mutant: the last carry is left free.                                       *)
ByteChainOpen(a, b) ==
    \E carry \in [0 .. IdLen -> {0, 1}] :
        /\ carry[0] = 1
        /\ \A j \in 1 .. IdLen : b[j] + 256 * carry[j] - a[j] - carry[j - 1] \in Byte

(* a + slack + 1 = b in IdLen equations over bytes: the carry into the lowest *)
(* byte is the plus one, the last carry is zero, and every slack byte, like   *)
(* a and b, is decomposed into bits, so that no side reaches the modulus.     *)
ByteChain(a, b) ==
    \E carry \in [0 .. IdLen -> {0, 1}] :
        /\ carry[0] = 1 /\ carry[IdLen] = 0
        /\ \A j \in 1 .. IdLen : b[j] + 256 * carry[j] - a[j] - carry[j - 1] \in Byte

(* MdocRevocationRangeEval::evaluate: some slack bytes and carries fill both  *)
(* chains, from the lower neighbour to the id and from it to the upper one.   *)
RangeRow(r) ==
    LET id == SubSeq(r.digest, 1, IdLen) IN
    /\ \A j \in 1 .. IdLen : id[j] \in Byte /\ r.lo[j] \in Byte /\ r.hi[j] \in Byte
    /\ ByteChain(r.lo, id) /\ ByteChain(id, r.hi)

AttributesOf(mode) == {i \in Attributes : statement.attributes[i].mode = mode}
ValueLen(i) == Len(statement.attributes[i].value)

BirthRow(b) == IsBirthBytes(b) /\ BirthDate(b) \in statement.policy.oldEnough
CountryRow(c) == CountryCode(c) \in statement.policy.accepted

Init ==
    /\ credential \in Credentials
    /\ \E policy \in Policies, build \in Builds, revocation \in Revocations :
          /\ Extractable(credential, policy)
          /\ statement = FromExtracted(credential, policy, build, revocation)
    /\ prover \in {"honest", "any"}
    /\ preimages = <<>>
    /\ rows = [digests |-> [i \in Attributes |-> <<>>],
               from |-> <<>>, until |-> <<>>, payload |-> <<>>,
               range |-> [digest |-> <<>>, lo |-> <<>>, hi |-> <<>>],
               birth |-> <<>>, country |-> <<>>, mac |-> <<<<>>, <<>>, <<>>>>]
    /\ stage = "sha"
    /\ verdict = "open"

(* Sha256Prover for one source.                                               *)
ShaWrites(s) ==
    /\ stage = "sha" /\ s \notin DOMAIN preimages
    /\ \E m \in RowChoices(HonestMessage(s), Messages[s[1]]) :
          /\ Covers(s, m)
          /\ preimages' = [t \in DOMAIN preimages \cup {s} |->
                              IF t = s THEN m ELSE preimages[t]]
    /\ stage' = IF DOMAIN preimages' = Sources THEN "window_bind" ELSE "sha"
    /\ UNCHANGED <<credential, statement, prover, rows, verdict>>

Wrote(name, next) ==
    /\ stage = name /\ stage' = next
    /\ UNCHANGED <<credential, statement, prover, preimages, verdict>>

WindowBindWrites ==
    /\ Wrote("window_bind", "validity")
    /\ \E d \in RowChoices([i \in Attributes |->
                            Bytes(Issuer, statement.attributes[i].digest.offset, DigestLen)],
                        [Attributes -> CellsOf(DigestLen)]) :
          rows' = [rows EXCEPT !.digests = d]

ValidityWrites ==
    /\ Wrote("validity", "payload_bind")
    /\ \E from \in RowChoices(Bytes(Issuer, statement.from.offset, TextLen), CellsOf(TextLen)),
          until \in RowChoices(Bytes(Issuer, statement.until.offset, TextLen), CellsOf(TextLen)) :
          /\ ValidFromRow(from, statement.policy.date)
          /\ ValidUntilRow(until, statement.policy.date)
          /\ rows' = [rows EXCEPT !.from = from, !.until = until]

PayloadBindWrites ==
    /\ Wrote("payload_bind", "revocation_range")
    /\ IF HasRange
       THEN \E p \in RowChoices(credential.mso, CellsOf(statement.payload.len)) :
               rows' = [rows EXCEPT !.payload = p]
       ELSE rows' = rows

RangeWrites ==
    /\ Wrote("revocation_range", "age")
    /\ IF HasRange
       THEN \E digest \in RowChoices(Hash(credential.mso), CellsOf(DigestLen)),
              lo \in RowChoices(statement.revocation.lo, CellsOf(IdLen)),
              hi \in RowChoices(statement.revocation.hi, CellsOf(IdLen)) :
               LET r == [digest |-> digest, lo |-> lo, hi |-> hi] IN
               RangeRow(r) /\ rows' = [rows EXCEPT !.range = r]
       ELSE rows' = rows

(* Mutant: the age is checked on the credential, not on the bound row.        *)
AgeWritesUnchecked ==
    /\ Wrote("age", "nationality")
    /\ IF AttributesOf("age") # {}
       THEN \E i \in AttributesOf("age") :
            \E b \in RowChoices(credential.attributes[i].value, CellsOf(ValueLen(i))) :
               BirthRow(credential.attributes[i].value) /\ rows' = [rows EXCEPT !.birth = b]
       ELSE rows' = rows

AgeWrites ==
    /\ Wrote("age", "nationality")
    /\ IF AttributesOf("age") # {}
       THEN \E i \in AttributesOf("age") :
            \E b \in RowChoices(credential.attributes[i].value, CellsOf(ValueLen(i))) :
               BirthRow(b) /\ rows' = [rows EXCEPT !.birth = b]
       ELSE rows' = rows

NationalityWrites ==
    /\ Wrote("nationality", "mac")
    /\ IF AttributesOf("alpha2") # {}
       THEN \E i \in AttributesOf("alpha2") :
            \E c \in RowChoices(credential.attributes[i].value, CellsOf(ValueLen(i))) :
               CountryRow(c) /\ rows' = [rows EXCEPT !.country = c]
       ELSE rows' = rows

MacWrites ==
    /\ Wrote("mac", "verify")
    /\ IF statement.build = "coprocessor"
       THEN \E z \in RowChoices(statement.issuerHash, CellsOf(DigestLen)),
              x \in RowChoices(statement.deviceKey[1], CellsOf(DigestLen)),
              y \in RowChoices(statement.deviceKey[2], CellsOf(DigestLen)) :
               rows' = [rows EXCEPT !.mac = <<z, x, y>>]
       ELSE rows' = rows

(* A witness that its own constraints reject: the predicates refuse to        *)
(* prepare, the others cannot prove.                                          *)
HonestRowsHold ==
    /\ HasRange => RangeRow([digest |-> Hash(credential.mso),
                             lo |-> statement.revocation.lo, hi |-> statement.revocation.hi])
    /\ \A i \in AttributesOf("age") : BirthRow(credential.attributes[i].value)
    /\ \A i \in AttributesOf("alpha2") : CountryRow(credential.attributes[i].value)

Refuses ==
    /\ stage = "sha" /\ prover = "honest" /\ ~ HonestRowsHold
    /\ stage' = "end" /\ verdict' = "refused"
    /\ UNCHANGED <<credential, statement, prover, preimages, rows>>

Verify ==
    /\ stage = "verify" /\ stage' = "end"
    /\ verdict' = IF Balanced THEN "accepted" ELSE "rejected"
    /\ UNCHANGED <<credential, statement, prover, preimages, rows>>

Next ==
    \/ \E s \in Sources : ShaWrites(s)
    \/ WindowBindWrites \/ ValidityWrites \/ PayloadBindWrites \/ RangeWrites
    \/ AgeWrites \/ NationalityWrites \/ MacWrites
    \/ Refuses \/ Verify

Spec == Init /\ [][Next]_vars

-----------------------------------------------------------------------------
TypeOK ==
    /\ credential \in Credentials
    /\ prover \in {"honest", "any"}
    /\ stage \in {"sha", "window_bind", "validity", "payload_bind", "revocation_range",
                  "age", "nationality", "mac", "verify", "end"}
    /\ verdict \in {"open", "accepted", "rejected", "refused"}
    /\ (verdict = "open") <=> (stage # "end")
    /\ DOMAIN preimages \subseteq Sources
    /\ stage \notin {"sha", "end"} => DOMAIN preimages = Sources

Accepted == verdict = "accepted"

(* The revocation id in this digest lies strictly between its neighbours.     *)
Between(lo, digest, hi) ==
    LET id == SubSeq(digest, 1, IdLen) IN
    NumberLE(lo) < NumberLE(id) /\ NumberLE(id) < NumberLE(hi)

(* The hashed message shows these bytes at this offset.                       *)
Reads(s, offset, bytes) == Bytes(s, offset, Len(bytes)) = bytes
ReadsLocated(s, located, bytes) ==
    /\ Reads(s, located.offset, bytes)
    /\ Reads(s, located.anchorOffset, located.anchor)

(* Every disclosed item is one that the issuer listed: its SHA-256 digest is  *)
(* in the issuer's message behind the key of its digest id, and the item      *)
(* itself names the element and holds the value that the statement claims.    *)
ItemsAreIssued ==
    Accepted => \A i \in Attributes :
        LET a == statement.attributes[i] IN
        /\ ReadsLocated(Issuer, a.digest, Hash(preimages[Item(i)]))
        /\ ReadsLocated(Item(i), a.name, a.element)
        /\ a.mode = "equality" => /\ Reads(Item(i), a.valueOffset, a.value)
                                  /\ Reads(Item(i), a.valueOffset, a.head)

(* The age and the nationality that were proven are those of the disclosed    *)
(* items, not of some other item or of cells that nothing ties to an item.    *)
PredicatesHold ==
    Accepted =>
        /\ \A i \in AttributesOf("age") :
              BirthRow(Bytes(Item(i), statement.attributes[i].valueOffset, ValueLen(i)))
        /\ \A i \in AttributesOf("alpha2") :
              CountryRow(Bytes(Item(i), statement.attributes[i].valueOffset, ValueLen(i)))

(* The validity dates that the issuer wrote enclose the policy's date.        *)
ValidOnPolicyDate ==
    Accepted =>
        LET from  == Bytes(Issuer, statement.from.offset, TextLen)
            until == Bytes(Issuer, statement.until.offset, TextLen)
        IN  /\ ReadsLocated(Issuer, statement.from, from)
            /\ ReadsLocated(Issuer, statement.until, until)
            /\ IsDateText(from) /\ NotLater(TextDate(from), statement.policy.date)
            /\ IsDateText(until) /\ NotLater(statement.policy.date, TextDate(until))

(* The messages that ECDSA was proven for are the hashed ones, and the key    *)
(* that signed the session is the one the issuer's message names.             *)
ProvenIssuerHash == IF statement.build = "legacy" THEN statement.issuerHash ELSE rows.mac[1]
ProvenDeviceKey ==
    IF statement.build = "legacy" THEN statement.deviceKey ELSE <<rows.mac[2], rows.mac[3]>>

SignedByDeviceKey ==
    Accepted =>
        /\ ProvenIssuerHash = Hash(preimages[Issuer])
        /\ statement.deviceHash = Hash(preimages[Device])
        /\ ReadsLocated(Issuer, statement.keyX, ProvenDeviceKey[1])
        /\ ReadsLocated(Issuer, statement.keyY, ProvenDeviceKey[2])

(* The credential's id lies strictly between two neighbours, and where the    *)
(* range is signed the signature covers exactly these two and the public      *)
(* epoch. The id is the first bytes of the hash of a message that begins with *)
(* the MSO in the issuer's message; that it also ends there is a matter of    *)
(* SHA-256's padding, which is not part of this module.                       *)
NotRevoked ==
    Accepted /\ HasRange =>
        /\ Reads(Issuer, statement.payload.offset, Bytes(Mso, 0, statement.payload.len))
        /\ Between(rows.range.lo, Hash(preimages[Mso]), rows.range.hi)
        /\ HasSignature =>
              /\ Reads(RevocationMessage, 0,
                       rows.range.lo \o rows.range.hi \o statement.revocation.epoch)
              /\ Hash(preimages[RevocationMessage]) = statement.revocationHash

(* Every window that a SHA-256 module exposes has exactly one reader of the   *)
(* same length, whatever is disclosed and whichever build: an honest proof is *)
(* never rejected for a relation that does not cancel. And a row is refused   *)
(* only for what it says: the number of an id that is not between the numbers *)
(* of its neighbours, a birth too late or a country that is not accepted.     *)
HonestIsAccepted ==
    prover = "honest" =>
        /\ verdict # "rejected"
        /\ verdict = "refused" =>
              \/ /\ HasRange
                 /\ ~ Between(statement.revocation.lo, Hash(credential.mso), statement.revocation.hi)
              \/ \E i \in AttributesOf("age") : ~ BirthRow(credential.attributes[i].value)
              \/ \E i \in AttributesOf("alpha2") : ~ CountryRow(credential.attributes[i].value)

=============================================================================
