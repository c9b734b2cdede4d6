---------------------------- MODULE Sha256Trace -----------------------------
(***************************************************************************)
(* The SHA-256 AIR (crates/stwo-sha256) as a machine that fills its trace  *)
(* row by row: one row per round, Rounds rows per message block, real rows *)
(* first, then disabled ones.  The next row is any row that the            *)
(* constraints of Sha256Eval admit after the present one, or, for an       *)
(* honest prover, the row that generate_trace writes.                      *)
(*                                                                         *)
(* The compression of a block is abstracted to appending the block: a      *)
(* chaining value is the sequence of blocks that it is the hash of, the IV *)
(* is the empty one, and values are equal only when their blocks are.  A   *)
(* block stands for its sixteen message words, an exposed byte for the     *)
(* block it is read from.                                                  *)
(***************************************************************************)
EXTENDS Naturals, Sequences

CONSTANTS
    Rounds,      \* rows of a block; 64
    MessageRow,  \* the row that sees all message words; 15
    Blocks,      \* contents of a block
    Messages,    \* messages to be proved: nonempty sequences of blocks
    Exposures,   \* sets of exposed blocks, by position from 0
    Sizes,       \* sizes of a trace in blocks: powers of two
    Hashes,      \* chaining values in cells that no constraint determines
    Counters     \* block counters likewise

ASSUME RowsAssumption == Rounds \in Nat /\ MessageRow \in Nat /\ 0 < MessageRow /\ MessageRow + 1 < Rounds

ASSUME DataAssumption ==
    /\ Messages \subseteq Seq(Blocks) \ {<<>>}
    /\ \A e \in Exposures : e \subseteq Nat
    /\ Sizes \subseteq Nat \ {0}
    /\ Hashes \subseteq Seq(Blocks)
    /\ Counters \subseteq Nat

(* Some trace leaves a disabled row behind every message.                  *)
ASSUME SizesAssumption == \A msg \in Messages : \E s \in Sizes : s > Len(msg)

VARIABLES
    witness,  \* the honest prover's message; <<>> stands for any prover
    targets,  \* the exposed blocks
    size,     \* the size of the trace in blocks
    block,    \* the block of the last row filled, from 0
    round,    \* its round, from 0
    cells,    \* its cells
    digests,  \* the digests yielded so far
    fields    \* what was yielded so far for each exposed block

vars == <<witness, targets, size, block, round, cells, digests, fields>>

IV == <<>>
Compress(h, b) == Append(h, b)

(* The cells that order and selection depend on.  A block's content and    *)
(* input state sit in rows of their own; here all rows of a block repeat   *)
(* them.                                                                   *)
Cells == [enabler : {0, 1}, content : Blocks, hIn : Seq(Blocks), hOut : Seq(Blocks),
          counter : Nat, selectors : SUBSET Nat]

Honest == witness # <<>>
Anchor(k, t) == k = 0 /\ t = 0
BlockStart(t) == t = 0
LastRound(t) == t = Rounds - 1

(* Exposing only block 0 needs no counter and no selectors. *)
NeedsBlockWitness == targets \ {0} # {}

(* Mutant: the message may fill the trace. *)
FullSize(n) == CHOOSE s \in Sizes : s >= n /\ \A x \in Sizes : x >= n => s <= x

(* The least size that leaves a disabled row behind n blocks. *)
MinSize(n) == CHOOSE s \in Sizes : s > n /\ \A x \in Sizes : x > n => s <= x
-----------------------------------------------------------------------------
(* Mutant: real rows may follow disabled ones. *)
Anchored(k, t, prev, cur) == Anchor(k, t) => cur.enabler = 1

(* Real rows form a prefix: row 0 is real, and none follows a disabled row. *)
Contiguous(k, t, prev, cur) ==
    IF Anchor(k, t) THEN cur.enabler = 1 ELSE cur.enabler <= prev.enabler

(* Mutant: a block starts from any input state. *)
Unchained(k, t, prev, cur) == Anchor(k, t) => cur.hIn = IV

(* The first block starts from the IV, a later real block from the output  *)
(* of its predecessor.                                                     *)
Chained(k, t, prev, cur) ==
    /\ Anchor(k, t) => cur.hIn = IV
    /\ (BlockStart(t) /\ k # 0 /\ cur.enabler = 1) => cur.hIn = prev.hOut

Compressed(t, cur) ==
    (LastRound(t) /\ cur.enabler = 1) => cur.hOut = Compress(cur.hIn, cur.content)

(* Mutant: the counter may change within a block. *)
CountedAtStarts(k, t, prev, cur) ==
    /\ Anchor(k, t) => cur.counter = 0
    /\ (BlockStart(t) /\ k # 0 /\ cur.enabler = 1) => cur.counter = prev.counter + 1

(* The counter of a real row is the position of its block. *)
Counted(k, t, prev, cur) ==
    /\ Anchor(k, t) => cur.counter = 0
    /\ (cur.enabler = 1 /\ ~BlockStart(t)) => cur.counter = prev.counter
    /\ (BlockStart(t) /\ k # 0 /\ cur.enabler = 1) => cur.counter = prev.counter + 1

(* Mutant: a selector may be hot in every row of its block. *)
SelectedInBlock(t, cur) ==
    \A b \in cur.selectors : b \in targets /\ cur.enabler = 1 /\ cur.counter = b

(* A selector may be hot only in the message row of its block. *)
Selected(t, cur) ==
    \A b \in cur.selectors : b \in targets /\ cur.enabler = 1 /\ cur.counter = b /\ t = MessageRow

(* The rows of a block read one content and one input state. *)
SameBlock(t, prev, cur) ==
    ~BlockStart(t) => cur.content = prev.content /\ cur.hIn = prev.hIn

Admitted(k, t, prev, cur) ==
    /\ SameBlock(t, prev, cur)
    /\ Contiguous(k, t, prev, cur)
    /\ Chained(k, t, prev, cur)
    /\ Compressed(t, cur)
    /\ NeedsBlockWitness => Counted(k, t, prev, cur) /\ Selected(t, cur)

(* The digest of a real last row is yielded when the next row is disabled. *)
(* The row after the trace is row 0, a real one.                           *)
YieldsDigest(prev, cur) == LastRound(round) /\ prev.enabler = 1 /\ cur.enabler = 0

(* Without selectors, block 0 is exposed 15 rows below the anchor. *)
YieldsField(k, t, cur, b) ==
    IF NeedsBlockWitness THEN b \in cur.selectors ELSE k = 0 /\ t = MessageRow
-----------------------------------------------------------------------------
(* The rows that generate_trace writes: the blocks of the message, then    *)
(* decoy blocks with random content, disabled.                             *)
RealRow(k, t) ==
    [enabler |-> 1, content |-> witness[k + 1], hIn |-> SubSeq(witness, 1, k),
     hOut |-> IF LastRound(t) THEN SubSeq(witness, 1, k + 1) ELSE <<>>,
     counter |-> IF NeedsBlockWitness THEN k ELSE 0,
     selectors |-> IF NeedsBlockWitness /\ t = MessageRow THEN {k} \cap targets ELSE {}]

(* Mutant: a decoy row keeps the enabler of the row it is written as. *)
DecoyRowEnabled(t, b) ==
    [enabler |-> 1, content |-> b, hIn |-> IV,
     hOut |-> IF LastRound(t) THEN Compress(IV, b) ELSE <<>>, counter |-> 0, selectors |-> {}]

DecoyRow(t, b) ==
    [enabler |-> 0, content |-> b, hIn |-> IV,
     hOut |-> IF LastRound(t) THEN Compress(IV, b) ELSE <<>>, counter |-> 0, selectors |-> {}]

DecoyRows(t, prev) ==
    {DecoyRow(t, b) : b \in IF BlockStart(t) THEN Blocks ELSE {prev.content}}

HonestRows(k, t, prev) == IF k < Len(witness) THEN {RealRow(k, t)} ELSE DecoyRows(t, prev)

(* Rows an arbitrary prover may choose from: the values the constraints    *)
(* name, or others.  Cells that no constraint of a row reads are blank.    *)
AdmittedRows(k, t, prev) ==
    {c \in [enabler : {0, 1},
            content : IF BlockStart(t) THEN Blocks ELSE {prev.content},
            hIn : IF BlockStart(t) THEN {IV, prev.hOut} \cup Hashes ELSE {prev.hIn},
            hOut : IF LastRound(t) THEN {Compress(prev.hIn, prev.content)} \cup Hashes ELSE {<<>>},
            counter : IF NeedsBlockWitness
                      THEN {prev.counter, prev.counter + 1} \cup Counters ELSE {0},
            selectors : IF NeedsBlockWitness THEN SUBSET targets ELSE {{}}] :
        Admitted(k, t, prev, c)}

Rows(k, t, prev) == IF Honest THEN HonestRows(k, t, prev) ELSE AdmittedRows(k, t, prev)

BlankRow == [enabler |-> 0, content |-> CHOOSE b \in Blocks : TRUE, hIn |-> <<>>, hOut |-> <<>>,
             counter |-> 0, selectors |-> {}]

Init ==
    /\ witness \in Messages \cup {<<>>}
    /\ targets \in Exposures
    /\ size \in IF Honest THEN {MinSize(Len(witness))} ELSE Sizes
    /\ block = 0
    /\ round = 0
    /\ cells \in Rows(0, 0, BlankRow)
    /\ digests = <<>>
    /\ fields = [b \in targets |-> <<>>]

FillRow(k, t) ==
    /\ block' = k
    /\ round' = t
    /\ cells' \in Rows(k, t, cells)
    /\ digests' = IF YieldsDigest(cells, cells') THEN Append(digests, cells.hOut) ELSE digests
    /\ fields' = [b \in targets |-> IF YieldsField(k, t, cells', b)
                                    THEN Append(fields[b], cells'.content) ELSE fields[b]]
    /\ UNCHANGED <<witness, targets, size>>

NextRound == ~LastRound(round) /\ FillRow(block, round + 1)

NextBlock == LastRound(round) /\ block + 1 < size /\ FillRow(block + 1, 0)

Next == NextRound \/ NextBlock

Spec == Init /\ [][Next]_vars
-----------------------------------------------------------------------------
(* Whatever satisfies the constraints yields at most one digest, so that a *)
(* consumer of the digest channel cannot be served another message's.      *)
OneDigest == Len(digests) <= 1

(* A byte exposed for block b is a byte of block b of the very message     *)
(* whose digest is yielded: predicates speak of the signed credential.     *)
ExposedBytesAreHashed ==
    \A d \in 1 .. Len(digests), b \in targets : \A i \in 1 .. Len(fields[b]) :
        b < Len(digests[d]) /\ fields[b][i] = digests[d][b + 1]

(* No exposed byte is yielded twice, so no second value can serve a second *)
(* consumer of the same field.                                             *)
OneValuePerTarget == \A b \in targets : Len(fields[b]) <= 1

(* The trace of an honest prover satisfies the constraints row by row. *)
HonestRowsAdmitted == [][Honest => Admitted(block', round', cells, cells')]_vars

(* At its end it has yielded the message's digest and each exposed block. *)
HonestTraceProves ==
    (Honest /\ targets \subseteq 0 .. Len(witness) - 1 /\ LastRound(round) /\ block + 1 = size) =>
        /\ digests = <<witness>>
        /\ fields = [b \in targets |-> <<witness[b + 1]>>]
=============================================================================
