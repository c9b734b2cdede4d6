-------------------------- MODULE SignatureProofs ---------------------------
(***************************************************************************)
(* Proofs about the two halves of a signature's check: Sha256Trace, which  *)
(* hashes the signed message, for every number of rounds, every alphabet   *)
(* of blocks and every trace size; and EcdsaWitness, which verifies the    *)
(* signature of the digest, for every curve that meets its assumptions (a  *)
(* prime field, a group law of prime order on the points, Hasse's bound)   *)
(* and every set of inputs.                                                *)
(***************************************************************************)
EXTENDS Sha256Trace, EcdsaWitness, WellFoundedInduction, TLAPS

(***************************************************************************)
(* The trace of the hash.                                                  *)
(***************************************************************************)
(* The message hashed so far, while the rows are real. *)
Absorbed == Append(cells.hIn, cells.content)

Shape ==
    /\ witness \in Seq(Blocks)
    /\ targets \subseteq Nat
    /\ block \in Nat /\ round \in Nat /\ round < Rounds
    /\ cells \in Cells
    /\ digests \in Seq(Seq(Blocks))
    /\ fields \in [targets -> Seq(Blocks)]

(* An honest prover's last row is the one that generate_trace writes. *)
HonestCells ==
    Honest => IF block < Len(witness) THEN cells = RealRow(block, round)
              ELSE \E b \in Blocks : cells = DecoyRow(round, b)

(* Real rows chain from the IV and count their blocks. *)
Running ==
    cells.enabler = 1 =>
        /\ digests = <<>>
        /\ Len(cells.hIn) = block
        /\ LastRound(round) => cells.hOut = Absorbed
        /\ NeedsBlockWitness => cells.counter = block

(* What real rows have exposed is part of what they have hashed. *)
ReadFromAbsorbed ==
    cells.enabler = 1 =>
        \A b \in targets : \A i \in 1 .. Len(fields[b]) :
            b <= block /\ fields[b][i] = Absorbed[b + 1]

(* A block is exposed in its message row and not before. *)
ExposedOnce ==
    \A b \in targets :
        /\ Len(fields[b]) <= 1
        /\ fields[b] # <<>> => b < block \/ (b = block /\ MessageRow <= round)

(* The digest ends the real rows. *)
Finished ==
    digests # <<>> =>
        /\ cells.enabler = 0
        /\ 0 < block
        /\ Len(digests) = 1
        /\ ExposedBytesAreHashed

IInv == Shape /\ HonestCells /\ Running /\ ReadFromAbsorbed /\ ExposedOnce /\ Finished

(* (k, t) is the row after the present one. *)
Follows(k, t) ==
    \/ ~LastRound(round) /\ k = block /\ t = round + 1
    \/ LastRound(round) /\ k = block + 1 /\ t = 0
-----------------------------------------------------------------------------
(* A prefix and the element after it make the next prefix. *)
LEMMA PrefixGrows ==
    ASSUME NEW S, NEW s \in Seq(S), NEW k \in Nat, k < Len(s)
    PROVE  /\ Append(SubSeq(s, 1, k), s[k + 1]) = SubSeq(s, 1, k + 1)
           /\ SubSeq(s, 1, k) \in Seq(S)
           /\ s[k + 1] \in S
  OBVIOUS

(* The rows that generate_trace writes are rows that may be committed. *)
LEMMA RealRowType ==
    ASSUME Shape, RowsAssumption, NEW k \in Nat, k < Len(witness), NEW t \in Nat
    PROVE  RealRow(k, t) \in Cells
<1>1. witness[k + 1] \in Blocks /\ SubSeq(witness, 1, k) \in Seq(Blocks)
  BY PrefixGrows DEF Shape
<1>2. SubSeq(witness, 1, k + 1) \in Seq(Blocks)
  BY DEF Shape
<1>3. <<>> \in Seq(Blocks)
  OBVIOUS
<1>. QED
  BY <1>1, <1>2, <1>3 DEF RealRow, Cells

LEMMA DecoyRowType ==
    ASSUME NEW t \in Nat, NEW b \in Blocks
    PROVE  DecoyRow(t, b) \in Cells
<1>1. <<>> \in Seq(Blocks) /\ Append(<<>>, b) \in Seq(Blocks)
  OBVIOUS
<1>. QED
  BY <1>1 DEF DecoyRow, Cells, IV, Compress

(* The rows an arbitrary prover commits satisfy the constraints.           *)
LEMMA AnyRow ==
    ASSUME DataAssumption, NEW prev \in Cells, targets \subseteq Nat,
           NEW k \in Nat, NEW t \in Nat, NEW cur \in AdmittedRows(k, t, prev)
    PROVE  cur \in Cells /\ Admitted(k, t, prev, cur)
<1>1. Admitted(k, t, prev, cur)
  BY DEF AdmittedRows
<1>2. /\ prev.content \in Blocks /\ prev.hIn \in Seq(Blocks) /\ prev.hOut \in Seq(Blocks)
      /\ prev.counter \in Nat /\ prev.counter + 1 \in Nat
  BY DEF Cells
<1>3. <<>> \in Seq(Blocks) /\ Append(prev.hIn, prev.content) \in Seq(Blocks)
  BY <1>2
<1>4. /\ cur.enabler \in {0, 1} /\ cur.content \in Blocks
      /\ DOMAIN cur = {"enabler", "content", "hIn", "hOut", "counter", "selectors"}
  BY <1>2 DEF AdmittedRows
<1>5. cur.hIn \in Seq(Blocks)
  BY <1>2, <1>3 DEF AdmittedRows, IV, DataAssumption
<1>6. cur.hOut \in Seq(Blocks)
  BY <1>2, <1>3 DEF AdmittedRows, Compress, DataAssumption
<1>7. cur.counter \in Nat /\ cur.selectors \in SUBSET Nat
  <2>1. CASE NeedsBlockWitness
    <3>1. cur.counter \in {prev.counter, prev.counter + 1} \cup Counters
      BY <2>1 DEF AdmittedRows
    <3>2. cur.selectors \in SUBSET targets
      BY <2>1 DEF AdmittedRows
    <3>. QED
      BY <3>1, <3>2, <1>2 DEF DataAssumption
  <2>2. CASE ~NeedsBlockWitness
    <3>1. cur.counter = 0 /\ cur.selectors = {}
      BY <2>2 DEF AdmittedRows
    <3>. QED
      BY <3>1
  <2>. QED
    BY <2>1, <2>2
<1>8. cur \in Cells
  BY <1>4, <1>5, <1>6, <1>7 DEF AdmittedRows, Cells
<1>. QED
  BY <1>1, <1>8

(* A row written by generate_trace satisfies them too. *)
LEMMA HonestRow ==
    ASSUME RowsAssumption, Shape, HonestCells, Honest, NEW k, NEW t, Follows(k, t),
           NEW cur \in HonestRows(k, t, cells)
    PROVE  /\ cur \in Cells
           /\ Admitted(k, t, cells, cur)
           /\ IF k < Len(witness) THEN cur = RealRow(k, t)
              ELSE \E b \in Blocks : cur = DecoyRow(t, b)
<1>1. k \in Nat /\ t \in Nat /\ t < Rounds /\ Len(witness) \in Nat
  BY DEF Follows, Shape, LastRound, RowsAssumption
<1>2. ~Anchor(k, t)
  BY <1>1 DEF Follows, Shape, Anchor
<1>3. CASE k < Len(witness)
  <2>1. cur = RealRow(k, t)
    BY <1>3 DEF HonestRows
  <2>2. block < Len(witness)
    BY <1>1, <1>3 DEF Follows, Shape
  <2>3. cells = RealRow(block, round)
    BY <2>2 DEF HonestCells
  <2>4. SameBlock(t, cells, cur)
    BY <2>1, <2>3, <1>1 DEF SameBlock, BlockStart, Follows, RealRow
  <2>5. Contiguous(k, t, cells, cur)
    BY <2>1, <2>3, <1>2 DEF Contiguous, RealRow
  <2>6. Chained(k, t, cells, cur)
    BY <2>1, <2>3, <1>2, <1>1 DEF Chained, BlockStart, Follows, RealRow, Shape
  <2>7. Compressed(t, cur)
    BY <2>1, <1>1, <1>3, PrefixGrows DEF Compressed, Compress, RealRow, Shape
  <2>8. NeedsBlockWitness => Counted(k, t, cells, cur)
    BY <2>1, <2>3, <1>2, <1>1 DEF Counted, BlockStart, Follows, RealRow, Shape
  <2>9. NeedsBlockWitness => Selected(t, cur)
    BY <2>1 DEF Selected, RealRow
  <2>10. cur \in Cells
    BY <2>1, <1>1, <1>3, RealRowType
  <2>. QED
    BY <1>3, <2>1, <2>4, <2>5, <2>6, <2>7, <2>8, <2>9, <2>10 DEF Admitted
<1>4. CASE ~(k < Len(witness))
  <2>1. PICK b \in IF BlockStart(t) THEN Blocks ELSE {cells.content} : cur = DecoyRow(t, b)
    BY <1>4 DEF HonestRows, DecoyRows
  <2>2. b \in Blocks
    BY <2>1 DEF Shape, Cells
  <2>3. cur \in Cells
    BY <2>1, <2>2, <1>1, DecoyRowType
  <2>4. cur.enabler = 0 /\ cur.selectors = {} /\ cur.content = b /\ cur.hIn = IV
    BY <2>1 DEF DecoyRow
  <2>5. ~BlockStart(t) => \E c \in Blocks : cells = DecoyRow(round, c)
    BY <1>1, <1>4 DEF BlockStart, Follows, HonestCells, Shape
  <2>6. ~BlockStart(t) => cells.hIn = IV
    BY <2>5 DEF DecoyRow
  <2>7. SameBlock(t, cells, cur)
    BY <2>1, <2>4, <2>6 DEF SameBlock
  <2>8. cells.enabler \in {0, 1}
    BY DEF Shape, Cells
  <2>9. Contiguous(k, t, cells, cur)
    BY <2>4, <2>8, <1>2 DEF Contiguous
  <2>10. Chained(k, t, cells, cur) /\ Compressed(t, cur)
    BY <2>4, <1>2 DEF Chained, Compressed
  <2>11. Counted(k, t, cells, cur) /\ Selected(t, cur)
    BY <2>4, <1>2 DEF Counted, Selected
  <2>. QED
    BY <1>4, <2>1, <2>2, <2>3, <2>7, <2>9, <2>10, <2>11 DEF Admitted
<1>. QED
  BY <1>3, <1>4
-----------------------------------------------------------------------------
(* Every step fills the following row with one that the constraints admit. *)
LEMMA StepAdmitted ==
    ASSUME RowsAssumption, DataAssumption, Shape, HonestCells,
           NEW k, NEW t, Follows(k, t), FillRow(k, t)
    PROVE  /\ k \in Nat /\ t \in Nat /\ t < Rounds
           /\ cells' \in Cells
           /\ Admitted(k, t, cells, cells')
           /\ HonestCells'
<1>1. k \in Nat /\ t \in Nat /\ t < Rounds
  BY DEF Follows, Shape, LastRound, RowsAssumption
<1>2. CASE Honest
  <2>1. cells' \in HonestRows(k, t, cells)
    BY <1>2 DEF FillRow, Rows
  <2>2. /\ cells' \in Cells
        /\ Admitted(k, t, cells, cells')
        /\ IF k < Len(witness) THEN cells' = RealRow(k, t)
           ELSE \E b \in Blocks : cells' = DecoyRow(t, b)
    BY <1>2, <2>1, HonestRow
  <2>3. HonestCells'
    BY <2>2 DEF HonestCells, FillRow, RealRow, DecoyRow, NeedsBlockWitness
  <2>. QED
    BY <1>1, <2>2, <2>3
<1>3. CASE ~Honest
  <2>1. cells' \in AdmittedRows(k, t, cells)
    BY <1>3 DEF FillRow, Rows
  <2>2. cells' \in Cells /\ Admitted(k, t, cells, cells')
    BY <1>1, <2>1, AnyRow DEF Shape
  <2>3. HonestCells'
    BY <1>3 DEF HonestCells, Honest, FillRow
  <2>. QED
    BY <1>1, <2>2, <2>3
<1>. QED
  BY <1>2, <1>3

(* A new block brings no exposed byte: its first row is not a message row. *)
LEMMA NoYieldAtStart ==
    ASSUME RowsAssumption, Shape, NEW k \in Nat, k # 0,
           Admitted(k, 0, cells, cells'), FillRow(k, 0)
    PROVE  fields' = fields
<1>1. ASSUME NEW b \in targets PROVE ~YieldsField(k, 0, cells', b)
  BY DEF YieldsField, Admitted, Selected, RowsAssumption
<1>. QED
  BY <1>1 DEF FillRow, Shape

(* A row that exposes block b belongs to block b. *)
LEMMA YieldIsOwnBlock ==
    ASSUME RowsAssumption, Shape, Running, NEW k, NEW t, Follows(k, t), t # 0,
           Admitted(k, t, cells, cells'), FillRow(k, t),
           NEW b \in targets, YieldsField(k, t, cells', b)
    PROVE  b = block /\ k = block /\ t = MessageRow
<1>1. k = block
  BY DEF Follows
<1>2. CASE NeedsBlockWitness
  <2>1. b \in cells'.selectors
    BY <1>2 DEF YieldsField
  <2>2. cells'.enabler = 1 /\ cells'.counter = b /\ t = MessageRow
    BY <1>2, <2>1 DEF Admitted, Selected
  <2>3. cells'.counter = cells.counter
    BY <1>2, <2>2 DEF Admitted, Counted, BlockStart
  <2>4. cells.enabler = 1
    BY <2>2 DEF Admitted, Contiguous, Anchor, Shape, Cells
  <2>. QED
    BY <1>1, <1>2, <2>2, <2>3, <2>4 DEF Running
<1>3. CASE ~NeedsBlockWitness
  <2>1. b = 0
    BY <1>3 DEF NeedsBlockWitness
  <2>. QED
    BY <1>1, <1>3, <2>1 DEF YieldsField
<1>. QED
  BY <1>2, <1>3

(* The shape of the state survives every step. *)
LEMMA ShapeKept ==
    ASSUME RowsAssumption, DataAssumption, Shape, HonestCells,
           NEW k, NEW t, Follows(k, t), FillRow(k, t)
    PROVE  Shape'
<1>1. k \in Nat /\ t \in Nat /\ t < Rounds /\ cells' \in Cells
  BY StepAdmitted
<1>2. witness' \in Seq(Blocks) /\ targets' \subseteq Nat /\ targets' = targets
  BY DEF Shape, FillRow
<1>3. block' \in Nat /\ round' \in Nat /\ round' < Rounds
  BY <1>1 DEF FillRow
<1>4. cells.hOut \in Seq(Blocks) /\ cells'.content \in Blocks
  BY <1>1 DEF Shape, Cells
<1>5. digests' \in Seq(Seq(Blocks))
  BY <1>4 DEF Shape, FillRow
<1>6. ASSUME NEW b \in targets
      PROVE  (IF YieldsField(k, t, cells', b) THEN Append(fields[b], cells'.content)
              ELSE fields[b]) \in Seq(Blocks)
  BY <1>4 DEF Shape
<1>7. fields' \in [targets' -> Seq(Blocks)]
  BY <1>2, <1>6 DEF FillRow
<1>. QED
  BY <1>1, <1>2, <1>3, <1>5, <1>7 DEF Shape

(* Within a block. *)
LEMMA RoundStep ==
    ASSUME RowsAssumption, DataAssumption, IInv, NextRound
    PROVE  IInv'
<1>1. Follows(block, round + 1) /\ FillRow(block, round + 1) /\ ~LastRound(round)
  BY DEF NextRound, Follows
<1>2. Shape /\ HonestCells /\ Running /\ ReadFromAbsorbed /\ ExposedOnce /\ Finished
  BY DEF IInv
<1>3. Shape' /\ HonestCells' /\ cells' \in Cells /\ Admitted(block, round + 1, cells, cells')
  BY <1>1, <1>2, ShapeKept, StepAdmitted
<1>4. digests' = digests /\ block' = block /\ round' = round + 1 /\ targets' = targets
  BY <1>1 DEF FillRow, YieldsDigest
<1>5. block \in Nat /\ round \in Nat /\ round + 1 # 0 /\ ~BlockStart(round + 1)
      /\ ~Anchor(block, round + 1)
  BY <1>2 DEF Shape, BlockStart, Anchor
<1>6. cells'.content = cells.content /\ cells'.hIn = cells.hIn
  BY <1>3, <1>5 DEF Admitted, SameBlock
<1>7. cells'.enabler = 1 => cells.enabler = 1
  BY <1>2, <1>3, <1>5 DEF Admitted, Contiguous, Shape, Cells
<1>8. Absorbed' = Absorbed
  BY <1>6 DEF Absorbed
<1>9. Running'
  <2>1. SUFFICES ASSUME cells'.enabler = 1
                 PROVE  /\ digests' = <<>>
                        /\ Len(cells'.hIn) = block'
                        /\ LastRound(round') => cells'.hOut = Absorbed'
                        /\ NeedsBlockWitness' => cells'.counter = block'
    BY DEF Running
  <2>2. digests' = <<>> /\ Len(cells'.hIn) = block'
    BY <2>1, <1>2, <1>4, <1>6, <1>7 DEF Running
  <2>3. LastRound(round') => cells'.hOut = Absorbed'
    BY <2>1, <1>3, <1>4 DEF Admitted, Compressed, Compress, Absorbed, LastRound
  <2>4. NeedsBlockWitness' => cells'.counter = block'
    BY <2>1, <1>2, <1>3, <1>4, <1>5, <1>7 DEF Admitted, Counted, Running, NeedsBlockWitness
  <2>. QED
    BY <2>2, <2>3, <2>4
<1>10. ASSUME NEW b \in targets
       PROVE  \/ fields'[b] = fields[b]
              \/ /\ fields[b] = <<>> /\ fields'[b] = <<cells.content>>
                 /\ b = block /\ round' = MessageRow
  <2>1. CASE YieldsField(block, round + 1, cells', b)
    <3>1. b = block /\ round + 1 = MessageRow
      BY <1>1, <1>2, <1>3, <1>5, <2>1, YieldIsOwnBlock
    <3>2. fields[b] = <<>>
      BY <3>1, <1>2, <1>5 DEF ExposedOnce, RowsAssumption
    <3>3. fields'[b] = Append(fields[b], cells'.content)
      BY <1>1, <2>1 DEF FillRow
    <3>. QED
      BY <3>1, <3>2, <3>3, <1>4, <1>6
  <2>2. CASE ~YieldsField(block, round + 1, cells', b)
    BY <1>1, <2>2 DEF FillRow
  <2>. QED
    BY <2>1, <2>2
<1>11. ReadFromAbsorbed'
  <2>1. SUFFICES ASSUME cells'.enabler = 1, NEW b \in targets, NEW i \in 1 .. Len(fields'[b])
                 PROVE  b <= block /\ fields'[b][i] = Absorbed[b + 1]
    BY <1>4, <1>8 DEF ReadFromAbsorbed
  <2>2. CASE fields'[b] = fields[b]
    BY <2>1, <2>2, <1>2, <1>7 DEF ReadFromAbsorbed
  <2>3. CASE fields'[b] = <<cells.content>> /\ b = block
    <3>1. Len(cells.hIn) = block /\ cells.hIn \in Seq(Blocks) /\ cells.content \in Blocks
      BY <2>1, <1>2, <1>7 DEF Running, Shape, Cells
    <3>2. Absorbed[block + 1] = cells.content
      BY <3>1 DEF Absorbed
    <3>3. i = 1
      BY <2>1, <2>3
    <3>. QED
      BY <2>3, <3>2, <3>3, <1>5
  <2>. QED
    BY <1>10, <2>2, <2>3
<1>12. ExposedOnce'
  <2>1. SUFFICES ASSUME NEW b \in targets
                 PROVE  /\ Len(fields'[b]) <= 1
                        /\ fields'[b] # <<>> => b < block \/ (b = block /\ MessageRow <= round + 1)
    BY <1>4 DEF ExposedOnce
  <2>2. CASE fields'[b] = fields[b]
    BY <2>2, <1>2, <1>5 DEF ExposedOnce, RowsAssumption
  <2>3. CASE fields'[b] = <<cells.content>> /\ b = block /\ round' = MessageRow
    BY <2>3, <1>4 DEF RowsAssumption
  <2>. QED
    BY <1>10, <2>2, <2>3
<1>13. Finished'
  <2>1. SUFFICES ASSUME digests # <<>>
                 PROVE  cells'.enabler = 0 /\ 0 < block /\ Len(digests) = 1 /\ ExposedBytesAreHashed'
    BY <1>4 DEF Finished
  <2>2. cells.enabler = 0 /\ 0 < block /\ Len(digests) = 1 /\ ExposedBytesAreHashed
    BY <2>1, <1>2 DEF Finished
  <2>3. cells'.enabler = 0
    BY <2>2, <1>3, <1>7 DEF Cells
  <2>4. ASSUME NEW b \in targets PROVE ~YieldsField(block, round + 1, cells', b)
    BY <2>2, <2>3, <1>3, <1>5 DEF YieldsField, Admitted, Selected
  <2>5. fields' = fields
    BY <1>1, <1>2, <2>4 DEF FillRow, Shape
  <2>. QED
    BY <2>2, <2>3, <2>5, <1>4 DEF ExposedBytesAreHashed
<1>. QED
  BY <1>3, <1>9, <1>11, <1>12, <1>13 DEF IInv

(* From a block to the next, or behind the real rows. *)
LEMMA BlockStep ==
    ASSUME RowsAssumption, DataAssumption, IInv, NextBlock
    PROVE  IInv'
<1>1. Follows(block + 1, 0) /\ FillRow(block + 1, 0) /\ LastRound(round)
  BY DEF NextBlock, Follows
<1>2. Shape /\ HonestCells /\ Running /\ ReadFromAbsorbed /\ ExposedOnce /\ Finished
  BY DEF IInv
<1>3. Shape' /\ HonestCells' /\ cells' \in Cells /\ Admitted(block + 1, 0, cells, cells')
  BY <1>1, <1>2, ShapeKept, StepAdmitted
<1>4. block \in Nat /\ block + 1 # 0 /\ BlockStart(0) /\ ~Anchor(block + 1, 0)
  BY <1>2 DEF Shape, BlockStart, Anchor
<1>5. block' = block + 1 /\ round' = 0 /\ targets' = targets /\ fields' = fields
  BY <1>1, <1>2, <1>3, <1>4, NoYieldAtStart DEF FillRow
<1>6. cells.enabler \in {0, 1} /\ cells'.enabler \in {0, 1}
  BY <1>2, <1>3 DEF Shape, Cells
<1>7. cells'.enabler = 1 => cells.enabler = 1
  BY <1>3, <1>4, <1>6 DEF Admitted, Contiguous
<1>8. cells.enabler = 1 => cells.hOut = Absorbed
  BY <1>1, <1>2 DEF Running
<1>9. cells.hIn \in Seq(Blocks) /\ cells.content \in Blocks
      /\ cells'.hIn \in Seq(Blocks) /\ cells'.content \in Blocks
  BY <1>2, <1>3 DEF Shape, Cells
<1>10. Running'
  <2>1. SUFFICES ASSUME cells'.enabler = 1
                 PROVE  /\ digests' = <<>>
                        /\ Len(cells'.hIn) = block + 1
                        /\ ~LastRound(0)
                        /\ NeedsBlockWitness' => cells'.counter = block + 1
    BY <1>5 DEF Running
  <2>2. digests' = <<>>
    BY <2>1, <1>1, <1>2, <1>7 DEF FillRow, YieldsDigest, Running
  <2>3. cells'.hIn = Absorbed
    BY <2>1, <1>3, <1>4, <1>7, <1>8 DEF Admitted, Chained
  <2>4. Len(cells'.hIn) = block + 1
    BY <2>1, <2>3, <1>2, <1>7, <1>9 DEF Running, Absorbed
  <2>5. NeedsBlockWitness' => cells'.counter = block + 1
    BY <2>1, <1>2, <1>3, <1>4, <1>5, <1>7 DEF Admitted, Counted, Running, NeedsBlockWitness
  <2>. QED
    BY <2>2, <2>4, <2>5 DEF LastRound, RowsAssumption
<1>11. ReadFromAbsorbed'
  <2>1. SUFFICES ASSUME cells'.enabler = 1, NEW b \in targets, NEW i \in 1 .. Len(fields[b])
                 PROVE  b <= block + 1 /\ fields[b][i] = Absorbed'[b + 1]
    BY <1>5 DEF ReadFromAbsorbed
  <2>2. b <= block /\ fields[b][i] = Absorbed[b + 1] /\ b \in Nat
    BY <2>1, <1>2, <1>7 DEF ReadFromAbsorbed, Shape
  <2>3. cells'.hIn = Absorbed
    BY <2>1, <1>3, <1>4, <1>7, <1>8 DEF Admitted, Chained
  <2>4. Len(Absorbed) = block + 1
    BY <2>1, <1>2, <1>7, <1>9 DEF Running, Absorbed
  <2>5. Absorbed' = Append(Absorbed, cells'.content) /\ Absorbed \in Seq(Blocks)
    BY <2>3, <1>9 DEF Absorbed
  <2>6. Absorbed'[b + 1] = Absorbed[b + 1]
    BY <2>2, <2>4, <2>5, <1>4, <1>9
  <2>. QED
    BY <2>2, <2>6, <1>4
<1>12. ExposedOnce'
  <2>1. SUFFICES ASSUME NEW b \in targets
                 PROVE  /\ Len(fields[b]) <= 1
                        /\ fields[b] # <<>> => b < block + 1
    BY <1>5 DEF ExposedOnce
  <2>. QED
    BY <1>2, <1>4 DEF ExposedOnce, Shape
<1>13. Finished'
  <2>1. SUFFICES ASSUME digests' # <<>>
                 PROVE  cells'.enabler = 0 /\ Len(digests') = 1 /\ ExposedBytesAreHashed'
    BY <1>4, <1>5 DEF Finished
  <2>2. CASE YieldsDigest(cells, cells')
    <3>1. cells.enabler = 1 /\ cells'.enabler = 0
      BY <2>2 DEF YieldsDigest
    <3>2. digests' = <<Absorbed>>
      BY <2>2, <3>1, <1>1, <1>2, <1>8 DEF FillRow, Running
    <3>3. Len(Absorbed) = block + 1
      BY <3>1, <1>2, <1>9 DEF Running, Absorbed
    <3>4. ASSUME NEW b \in targets, NEW i \in 1 .. Len(fields[b])
          PROVE  b < Len(Absorbed) /\ fields[b][i] = Absorbed[b + 1]
      <4>1. b \in Nat /\ block \in Nat
        BY <1>2 DEF Shape
      <4>2. b <= block /\ fields[b][i] = Absorbed[b + 1]
        BY <3>1, <1>2 DEF ReadFromAbsorbed
      <4>. QED
        BY <3>3, <4>1, <4>2
    <3>5. ASSUME NEW d \in 1 .. Len(digests') PROVE digests'[d] = Absorbed
      BY <3>2
    <3>6. ExposedBytesAreHashed'
      BY <3>4, <3>5, <1>5 DEF ExposedBytesAreHashed
    <3>. QED
      BY <3>1, <3>2, <3>6
  <2>3. CASE ~YieldsDigest(cells, cells')
    <3>1. digests' = digests /\ digests # <<>>
      BY <2>1, <2>3, <1>1 DEF FillRow
    <3>2. cells.enabler = 0 /\ Len(digests) = 1 /\ ExposedBytesAreHashed
      BY <3>1, <1>2 DEF Finished
    <3>3. cells'.enabler = 0
      BY <3>2, <1>6, <1>7
    <3>. QED
      BY <3>1, <3>2, <3>3, <1>5 DEF ExposedBytesAreHashed
  <2>. QED
    BY <2>2, <2>3
<1>. QED
  BY <1>3, <1>10, <1>11, <1>12, <1>13 DEF IInv

(* The anchor row establishes the invariant. *)
LEMMA InitInv ==
    ASSUME RowsAssumption, DataAssumption, Init
    PROVE  IInv
<1>1. /\ targets \subseteq Nat /\ block = 0 /\ round = 0
      /\ digests = <<>> /\ fields = [b \in targets |-> <<>>]
  BY DEF Init, DataAssumption
<1>2. <<>> \in Seq(Blocks)
  OBVIOUS
<1>3. ~LastRound(0) /\ MessageRow # 0 /\ 0 < Rounds
  BY DEF LastRound, RowsAssumption
<1>4. witness \in Seq(Blocks)
  <2>1. witness \in Seq(Blocks) \/ witness = <<>>
    BY DEF Init, DataAssumption
  <2>. QED
    BY <1>2, <2>1
<1>5. cells \in Cells /\ cells.enabler = 1 /\ cells.hIn = IV
      /\ (NeedsBlockWitness => cells.counter = 0) /\ HonestCells
  <2>1. CASE Honest
    <3>1. witness # <<>> /\ 0 < Len(witness)
      BY <2>1, <1>4 DEF Honest
    <3>2. cells = RealRow(0, 0)
      BY <2>1, <3>1 DEF Init, Rows, HonestRows
    <3>3. witness[1] \in Blocks /\ SubSeq(witness, 1, 0) = <<>>
      BY <3>1, <1>4
    <3>4. cells = [enabler |-> 1, content |-> witness[0 + 1], hIn |-> SubSeq(witness, 1, 0),
                   hOut |-> <<>>, counter |-> 0, selectors |-> {}]
      BY <3>2, <1>3 DEF RealRow
    <3>5. cells \in Cells
      BY <3>3, <3>4, <1>2 DEF Cells
    <3>6. HonestCells
      BY <3>1, <3>2, <1>1 DEF HonestCells
    <3>. QED
      BY <3>3, <3>4, <3>5, <3>6 DEF IV
  <2>2. CASE ~Honest
    <3>1. cells \in AdmittedRows(0, 0, BlankRow)
      BY <2>2 DEF Init, Rows
    <3>2. cells.content \in Blocks
      BY <3>1 DEF AdmittedRows, BlockStart
    <3>3. (CHOOSE b \in Blocks : TRUE) \in Blocks
      BY <3>2
    <3>4. BlankRow \in Cells
      BY <3>3, <1>2 DEF BlankRow, Cells
    <3>5. cells \in Cells /\ Admitted(0, 0, BlankRow, cells)
      BY <3>1, <3>4, <1>1, AnyRow
    <3>. QED
      BY <2>2, <3>5 DEF Admitted, Contiguous, Chained, Counted, Anchor, HonestCells
  <2>. QED
    BY <2>1, <2>2
<1>6. Shape
  <2>1. fields \in [targets -> Seq(Blocks)] /\ digests \in Seq(Seq(Blocks))
    BY <1>1, <1>2
  <2>. QED
    BY <1>1, <1>4, <1>5, <1>3, <2>1 DEF Shape
<1>7. Running
  BY <1>1, <1>5, <1>3 DEF Running, IV
<1>8. ReadFromAbsorbed /\ ExposedOnce /\ Finished
  BY <1>1 DEF ReadFromAbsorbed, ExposedOnce, Finished
<1>. QED
  BY <1>5, <1>6, <1>7, <1>8 DEF IInv

(* The invariant holds of every trace that satisfies the constraints. *)
THEOREM TraceInvariant == Spec => []IInv
<1>1. Init => IInv
  BY InitInv, RowsAssumption, DataAssumption
<1>2. IInv /\ [Next]_vars => IInv'
  <2>1. ASSUME IInv, NextRound PROVE IInv'
    BY <2>1, RoundStep, RowsAssumption, DataAssumption
  <2>2. ASSUME IInv, NextBlock PROVE IInv'
    BY <2>2, BlockStep, RowsAssumption, DataAssumption
  <2>3. ASSUME IInv, UNCHANGED vars PROVE IInv'
    BY <2>3 DEF vars, IInv, Shape, HonestCells, Honest, RealRow, DecoyRow, NeedsBlockWitness,
       Running, Absorbed, ReadFromAbsorbed, ExposedOnce, Finished, ExposedBytesAreHashed
  <2>. QED
    BY <2>1, <2>2, <2>3 DEF Next
<1>. QED
  BY <1>1, <1>2, PTL DEF Spec

(* No trace that satisfies the constraints yields two digests. *)
THEOREM SingleDigest == Spec => []OneDigest
<1>1. IInv => OneDigest
  <2>1. CASE digests = <<>>
    <3>1. Len(digests) = 0
      BY <2>1
    <3>. QED
      BY <3>1 DEF OneDigest
  <2>2. ASSUME IInv, digests # <<>> PROVE OneDigest
    <3>1. Len(digests) = 1
      BY <2>2 DEF IInv, Finished
    <3>. QED
      BY <3>1 DEF OneDigest
  <2>. QED
    BY <2>1, <2>2
<1>. QED
  BY <1>1, TraceInvariant, PTL

(* Every byte it exposes is a byte of the message whose digest it yields,  *)
(* at the position it is exposed for.                                      *)
THEOREM FieldsOfHashedMessage == Spec => []ExposedBytesAreHashed
<1>1. IInv => ExposedBytesAreHashed
  <2>1. CASE digests = <<>>
    BY <2>1 DEF ExposedBytesAreHashed
  <2>2. CASE digests # <<>>
    BY <2>2 DEF IInv, Finished
  <2>. QED
    BY <2>1, <2>2
<1>. QED
  BY <1>1, TraceInvariant, PTL

(* And it exposes no byte twice. *)
THEOREM FieldsYieldedOnce == Spec => []OneValuePerTarget
<1>1. IInv => OneValuePerTarget
  BY DEF IInv, ExposedOnce, OneValuePerTarget
<1>. QED
  BY <1>1, TraceInvariant, PTL

(* Every row that generate_trace writes satisfies the constraints.         *)
THEOREM HonestTraceAdmitted == Spec => HonestRowsAdmitted
<1>1. IInv /\ [Next]_vars => [Honest => Admitted(block', round', cells, cells')]_vars
  <2>1. SUFFICES ASSUME IInv, Next PROVE Admitted(block', round', cells, cells')
    OBVIOUS
  <2>2. PICK k, t : Follows(k, t) /\ FillRow(k, t)
    BY <2>1 DEF Next, NextRound, NextBlock, Follows
  <2>3. block' = k /\ round' = t
    BY <2>2 DEF FillRow
  <2>. QED
    BY <2>1, <2>2, <2>3, StepAdmitted, RowsAssumption, DataAssumption DEF IInv
<1>. QED
  BY <1>1, TraceInvariant, PTL DEF HonestRowsAdmitted, Spec
-----------------------------------------------------------------------------
(* What an honest trace has yielded so far: the digest behind the message, *)
(* each exposed block from its message row on.                             *)
HonestYields ==
    Honest =>
        /\ Len(witness) < size
        /\ digests = IF block < Len(witness) THEN <<>> ELSE <<witness>>
        /\ \A b \in targets :
               b < Len(witness) =>
                   fields[b] = IF b < block \/ (b = block /\ MessageRow <= round)
                               THEN <<witness[b + 1]>> ELSE <<>>

NatLess == {ss \in Nat \X Nat : ss[1] < ss[2]}

(* The trace is longer than the message.                                   *)
LEMMA MinSizeFits ==
    ASSUME NEW n \in Nat, NEW s \in Sizes, s > n, Sizes \subseteq Nat
    PROVE  MinSize(n) \in Nat /\ n < MinSize(n)
<1> DEFINE Fitting == {x \in Sizes : x > n}
<1>1. Fitting \subseteq Nat /\ Fitting # {}
  OBVIOUS
<1>2. IsWellFoundedOn(NatLess, Nat)
  BY NatLessThanWellFounded DEF OpToRel, NatLess
<1>3. PICK x \in Fitting : \A y \in Fitting : ~(<<y, x>> \in NatLess)
  BY <1>1, <1>2, WFMin
<1> DEFINE Least(l) == l > n /\ \A y \in Sizes : y > n => l <= y
<1>4. x \in Sizes /\ Least(x)
  <2>1. x \in Sizes /\ x > n /\ x \in Nat
    OBVIOUS
  <2>2. ASSUME NEW y \in Sizes, y > n PROVE x <= y
    <3>1. y \in Fitting /\ y \in Nat
      BY <2>2
    <3>2. ~(y < x)
      BY <1>3, <2>1, <3>1 DEF NatLess
    <3>. QED
      BY <2>1, <3>1, <3>2
  <2>. QED
    BY <2>1, <2>2
<1> DEFINE w == CHOOSE l \in Sizes : Least(l)
<1> HIDE DEF Least
<1>5. w \in Sizes /\ Least(w)
  BY <1>4
<1>6. MinSize(n) = w
  BY DEF MinSize, Least
<1> HIDE DEF w
<1>. QED
  BY <1>1, <1>5, <1>6 DEF Least

(* An honest row exposes a block in its own message row and nowhere else.  *)
LEMMA HonestYield ==
    ASSUME RowsAssumption, Shape, HonestCells, Honest, NEW k, NEW t, Follows(k, t),
           FillRow(k, t), NEW b \in targets
    PROVE  /\ YieldsField(k, t, cells', b) <=> k < Len(witness) /\ b = k /\ t = MessageRow
           /\ k < Len(witness) => cells'.content = witness[k + 1]
<1>1. k \in Nat /\ t \in Nat /\ b \in Nat /\ Len(witness) \in Nat /\ 0 < Len(witness)
  BY DEF Follows, Shape, LastRound, RowsAssumption, Honest
<1>2. cells' \in HonestRows(k, t, cells)
  BY DEF FillRow, Rows
<1>3. NeedsBlockWitness \/ b = 0
  BY DEF NeedsBlockWitness
<1>4. CASE k < Len(witness)
  <2>1. cells' = RealRow(k, t)
    BY <1>2, <1>4 DEF HonestRows
  <2>2. /\ cells'.selectors = IF NeedsBlockWitness /\ t = MessageRow THEN {k} \cap targets ELSE {}
        /\ cells'.content = witness[k + 1]
    BY <2>1 DEF RealRow
  <2>. QED
    BY <1>1, <1>3, <1>4, <2>2 DEF YieldsField
<1>5. CASE ~(k < Len(witness))
  <2>1. PICK content : cells' = DecoyRow(t, content)
    BY <1>2, <1>5 DEF HonestRows, DecoyRows
  <2>2. cells'.selectors = {}
    BY <2>1 DEF DecoyRow
  <2>. QED
    BY <1>1, <1>5, <2>2 DEF YieldsField
<1>. QED
  BY <1>4, <1>5

(* A step of an honest trace yields what is due.                           *)
LEMMA HonestYieldsKept ==
    ASSUME RowsAssumption, DataAssumption, Shape, HonestCells, Shape', HonestCells',
           HonestYields, NEW k, NEW t, Follows(k, t), FillRow(k, t)
    PROVE  HonestYields'
<1> SUFFICES ASSUME Honest'
             PROVE  /\ Len(witness) < size
                    /\ digests' = IF k < Len(witness) THEN <<>> ELSE <<witness>>
                    /\ \A b \in targets :
                           b < Len(witness) =>
                               fields'[b] = IF b < k \/ (b = k /\ MessageRow <= t)
                                            THEN <<witness[b + 1]>> ELSE <<>>
  BY DEF HonestYields, FillRow
<1>1. /\ Honest /\ k \in Nat /\ t \in Nat /\ block \in Nat /\ round \in Nat
      /\ witness \in Seq(Blocks) /\ Len(witness) \in Nat /\ targets \subseteq Nat
  BY DEF Honest, FillRow, Follows, Shape, LastRound, RowsAssumption
<1>2. /\ block' = k /\ round' = t /\ witness' = witness
      /\ digests' = IF YieldsDigest(cells, cells') THEN Append(digests, cells.hOut) ELSE digests
      /\ fields' = [b \in targets |-> IF YieldsField(k, t, cells', b)
                                      THEN Append(fields[b], cells'.content) ELSE fields[b]]
  BY DEF FillRow
<1>3. /\ Len(witness) < size
      /\ digests = IF block < Len(witness) THEN <<>> ELSE <<witness>>
  BY <1>1 DEF HonestYields
<1>4. digests' = IF k < Len(witness) THEN <<>> ELSE <<witness>>
  <2>1. IF block < Len(witness) THEN cells = RealRow(block, round)
        ELSE \E b \in Blocks : cells = DecoyRow(round, b)
    BY <1>1 DEF HonestCells
  <2>2. IF k < Len(witness) THEN cells' = RealRow(k, t)'
        ELSE \E b \in Blocks : cells' = DecoyRow(t, b)'
    BY <1>1, <1>2 DEF HonestCells, Honest
  <2>3. /\ cells.enabler = IF block < Len(witness) THEN 1 ELSE 0
        /\ cells'.enabler = IF k < Len(witness) THEN 1 ELSE 0
    BY <2>1, <2>2 DEF RealRow, DecoyRow
  <2>4. CASE ~LastRound(round)
    BY <1>2, <1>3, <2>4 DEF Follows, YieldsDigest
  <2>5. CASE LastRound(round)
    <3>1. k = block + 1
      BY <2>5 DEF Follows
    <3>2. YieldsDigest(cells, cells') <=> k = Len(witness)
      BY <1>1, <2>3, <2>5, <3>1 DEF YieldsDigest
    <3>3. CASE k = Len(witness)
      <4>1. block < Len(witness) /\ ~(k < Len(witness))
        BY <1>1, <3>1, <3>3
      <4>2. cells = RealRow(block, round)
        BY <2>1, <4>1
      <4>3. cells.hOut = SubSeq(witness, 1, block + 1)
        BY <2>5, <4>2 DEF RealRow
      <4>4. SubSeq(witness, 1, block + 1) = witness
        BY <1>1, <3>1, <3>3
      <4>5. digests = <<>>
        BY <1>3, <4>1
      <4>6. digests' = Append(digests, cells.hOut)
        BY <1>2, <3>2, <3>3
      <4>7. digests' = <<witness>>
        BY <4>3, <4>4, <4>5, <4>6
      <4>. QED
        BY <4>1, <4>7
    <3>4. CASE k # Len(witness)
      BY <1>1, <1>2, <1>3, <3>1, <3>2, <3>4
    <3>. QED
      BY <3>3, <3>4
  <2>. QED
    BY <2>4, <2>5
<1>5. ASSUME NEW b \in targets, b < Len(witness)
      PROVE  fields'[b] = IF b < k \/ (b = k /\ MessageRow <= t)
                          THEN <<witness[b + 1]>> ELSE <<>>
  <2>1. /\ YieldsField(k, t, cells', b) <=> k < Len(witness) /\ b = k /\ t = MessageRow
        /\ k < Len(witness) => cells'.content = witness[k + 1]
    BY <1>1, HonestYield
  <2>2. fields[b] = IF b < block \/ (b = block /\ MessageRow <= round)
                    THEN <<witness[b + 1]>> ELSE <<>>
    BY <1>1, <1>5 DEF HonestYields
  <2>3. fields'[b] = IF YieldsField(k, t, cells', b)
                     THEN Append(fields[b], cells'.content) ELSE fields[b]
    BY <1>2
  <2>4. MessageRow \in Nat /\ 0 < MessageRow /\ Rounds \in Nat /\ MessageRow + 1 < Rounds /\ b \in Nat
    BY <1>1 DEF RowsAssumption
  <2>5. CASE ~LastRound(round)
    <3>1. k = block /\ t = round + 1
      BY <2>5 DEF Follows
    <3>2. CASE b = k /\ t = MessageRow
      <4>1. fields[b] = <<>> /\ YieldsField(k, t, cells', b) /\ cells'.content = witness[b + 1]
        BY <1>1, <1>5, <2>1, <2>2, <2>4, <3>1, <3>2
      <4>. QED
        BY <2>3, <2>4, <3>2, <4>1
    <3>3. CASE ~(b = k /\ t = MessageRow)
      BY <1>1, <2>1, <2>2, <2>3, <2>4, <3>1, <3>3
    <3>. QED
      BY <3>2, <3>3
  <2>6. CASE LastRound(round)
    <3>1. k = block + 1 /\ t = 0 /\ round = Rounds - 1
      BY <2>6 DEF Follows, LastRound
    <3>. QED
      BY <1>1, <2>1, <2>2, <2>3, <2>4, <3>1
  <2>. QED
    BY <2>5, <2>6
<1>. QED
  BY <1>3, <1>4, <1>5

(* The anchor row of an honest trace.                                      *)
LEMMA HonestYieldsInit ==
    ASSUME RowsAssumption, DataAssumption, SizesAssumption, Init
    PROVE  HonestYields
<1> SUFFICES ASSUME Honest PROVE HonestYields
  BY DEF HonestYields
<1>1. /\ witness \in Messages /\ witness \in Seq(Blocks) /\ Len(witness) \in Nat
      /\ 0 < Len(witness) /\ Sizes \subseteq Nat
  BY DEF Init, Honest, DataAssumption
<1>2. size = MinSize(Len(witness)) /\ block = 0 /\ round = 0 /\ digests = <<>>
      /\ fields = [b \in targets |-> <<>>] /\ targets \subseteq Nat
  BY DEF Init, DataAssumption
<1>3. \E s \in Sizes : s > Len(witness)
  BY <1>1 DEF SizesAssumption
<1>4. Len(witness) < size
  BY <1>1, <1>2, <1>3, MinSizeFits
<1>5. MessageRow \in Nat /\ 0 < MessageRow
  BY DEF RowsAssumption
<1>. QED
  BY <1>1, <1>2, <1>4, <1>5 DEF HonestYields

(* An honest trace yields the digest of its message and each exposed block *)
(* of it, once, whatever the message, the exposed blocks and the number of *)
(* decoy rows (generate_trace and the yields of Sha256Eval).               *)
THEOREM HonestTraceComplete == Spec => []HonestTraceProves
<1>1. Init => HonestYields
  BY HonestYieldsInit, RowsAssumption, DataAssumption, SizesAssumption
<1>2. IInv /\ IInv' /\ HonestYields /\ [Next]_vars => HonestYields'
  <2>1. ASSUME IInv, IInv', HonestYields, Next PROVE HonestYields'
    <3>1. PICK k, t : Follows(k, t) /\ FillRow(k, t)
      BY <2>1 DEF Next, NextRound, NextBlock, Follows
    <3>. QED
      BY <2>1, <3>1, HonestYieldsKept, RowsAssumption, DataAssumption DEF IInv
  <2>2. ASSUME HonestYields, UNCHANGED vars PROVE HonestYields'
    BY <2>2 DEF vars, HonestYields, Honest
  <2>. QED
    BY <2>1, <2>2
<1>3. IInv /\ HonestYields => HonestTraceProves
  <2>1. SUFFICES ASSUME IInv, HonestYields, Honest, targets \subseteq 0 .. Len(witness) - 1,
                        LastRound(round), block + 1 = size
                 PROVE  digests = <<witness>> /\ fields = [b \in targets |-> <<witness[b + 1]>>]
    BY DEF HonestTraceProves
  <2>2. block \in Nat /\ Len(witness) \in Nat /\ fields \in [targets -> Seq(Blocks)]
    BY <2>1 DEF IInv, Shape
  <2>3. Len(witness) <= block
    BY <2>1, <2>2 DEF HonestYields
  <2>4. digests = <<witness>>
    BY <2>1, <2>2, <2>3 DEF HonestYields
  <2>5. ASSUME NEW b \in targets PROVE fields[b] = <<witness[b + 1]>>
    <3>1. b \in Nat /\ b < Len(witness) /\ b < block
      BY <2>1, <2>2, <2>3
    <3>. QED
      BY <2>1, <3>1 DEF HonestYields
  <2>. QED
    BY <2>2, <2>4, <2>5
<1>. QED
  BY <1>1, <1>2, <1>3, TraceInvariant, PTL DEF Spec

-----------------------------------------------------------------------------
(***************************************************************************)
(* The witness of the signature.                                           *)
(*                                                                         *)
(* The argument, from the bottom up: residues modulo a prime are a field   *)
(* (no zero divisors, unique inverses), so a line meets the curve where    *)
(* the addition formulas say; multiples of a point add up and vanish only  *)
(* at multiples of the order; a walk that starts from its base stands at   *)
(* the multiple by 2^(bits read) plus the bits read, so that taking 2^Bits *)
(* bases off its end leaves the scalar's multiple. WitnessInv says this of *)
(* every slot that is written, and what a single alteration leaves.        *)
(***************************************************************************)

(* The quotient and the remainder of a division. *)
LEMMA Division ==
    ASSUME NEW a \in Int, NEW b \in Nat \ {0}
    PROVE  /\ a \div b \in Int /\ a % b \in Int
           /\ a = b * (a \div b) + (a % b)
           /\ 0 <= a % b /\ a % b < b
  BY Z3

(* A product is at least each factor when the other is positive. *)
LEMMA ProductAtLeast ==
    ASSUME NEW a \in Nat, NEW b \in Nat, 1 <= a
    PROVE  a * b >= b
  BY Z3

(* Products of naturals follow the order of a factor. *)
LEMMA ProductMonotone ==
    ASSUME NEW a \in Nat, NEW b \in Nat, NEW c \in Nat, a <= b
    PROVE  a * c <= b * c
  BY Z3

(* and decide it when the other factor is positive. *)
LEMMA ProductStrict ==
    ASSUME NEW a \in Int, NEW b \in Int, NEW c \in Nat \ {0}, a * c < b * c
    PROVE  a < b
  BY Z3

(* A difference distributes over a product. *)
LEMMA Distribute ==
    ASSUME NEW a \in Int, NEW b \in Int, NEW c \in Int
    PROVE  (a - b) * c = a * c - b * c
  BY Z3

(* A quotient and a remainder below the divisor are those of the division. *)
LEMMA UniqueDivision ==
    ASSUME NEW b \in Nat \ {0}, NEW d0 \in Int, NEW r \in 0 .. b - 1
    PROVE  (d0 * b + r) % b = r /\ (d0 * b + r) \div b = d0
<1> DEFINE a == d0 * b + r
<1>1. a \in Int /\ r \in Int /\ 0 <= r /\ r < b
  OBVIOUS
<1> DEFINE d == a \div b
           e == a % b
<1>2. d \in Int /\ e \in Int /\ a = b * d + e /\ 0 <= e /\ e < b
  BY <1>1, Division
<1>3. d0 * b + r = b * d + e
  BY <1>2
<1> HIDE DEF a, d, e
<1>4. (d0 - d) * b = e - r
  BY <1>1, <1>2, <1>3, Z3
<1>5. d0 - d < 1
  <2>1. (d0 - d) * b < 1 * b
    BY <1>1, <1>2, <1>4
  <2>2. QED
    BY <1>2, <2>1, ProductStrict
<1>6. -1 < d0 - d
  <2>1. (-1) * b < (d0 - d) * b
    BY <1>1, <1>2, <1>4
  <2>2. QED
    BY <1>2, <2>1, ProductStrict
<1>7. d0 = d
  BY <1>2, <1>5, <1>6
<1>8. e = r
  BY <1>1, <1>2, <1>4, <1>7
<1>9. QED
  BY <1>7, <1>8 DEF a, d, e

(* A nonempty set of naturals has a least element. *)
LEMMA LeastElement ==
    ASSUME NEW Low \in SUBSET Nat, Low # {}
    PROVE  \E x \in Low : \A y \in Low : ~(y < x)
<1>1. IsWellFoundedOn(NatLess, Nat)
  BY NatLessThanWellFounded DEF OpToRel, NatLess
<1>2. PICK x \in Low : \A y \in Low : ~(<<y, x>> \in NatLess)
  BY <1>1, WFMin
<1>3. QED
  BY <1>2 DEF NatLess

(* What holds at 0 and climbs from each number to the next holds up to n. *)
LEMMA Climb ==
    ASSUME NEW n \in Nat, NEW G, 0 \in G,
           \A i \in 0 .. n - 1 : i \in G => i + 1 \in G
    PROVE  \A i \in 0 .. n : i \in G
<1> DEFINE Low == {i \in 0 .. n : i \notin G}
<1>1. CASE Low # {}
  <2>1. Low \in SUBSET Nat
    OBVIOUS
  <2>2. PICK x \in Low : \A y \in Low : ~(y < x)
    BY <1>1, <2>1, LeastElement
  <2>3. x \in 1 .. n
    BY <2>2
  <2>4. x - 1 \in 0 .. n - 1 /\ x - 1 < x /\ (x - 1) + 1 = x /\ x - 1 \in 0 .. n
    BY <2>3
  <2>5. x - 1 \in G
    BY <2>2, <2>4
  <2>6. QED
    BY <2>2, <2>4, <2>5
<1>2. QED
  BY <1>1

-----------------------------------------------------------------------------
(* Residues: a and b are the same modulo m.                                *)
Same(a, b, m) == \E k \in Int : a - b = k * m

LEMMA SameRefl ==
    ASSUME NEW a \in Int, NEW m \in Nat \ {0}
    PROVE  Same(a, a, m)
<1>1. a - a = 0 * m
  OBVIOUS
<1>2. QED
  BY <1>1 DEF Same

LEMMA SameSym ==
    ASSUME NEW a \in Int, NEW b \in Int, NEW m \in Nat \ {0}, Same(a, b, m)
    PROVE  Same(b, a, m)
<1>1. PICK k \in Int : a - b = k * m
  BY DEF Same
<1>2. b - a = (-k) * m /\ -k \in Int
  BY <1>1, Z3
<1>3. QED
  BY <1>2 DEF Same

LEMMA SameTrans ==
    ASSUME NEW a \in Int, NEW b \in Int, NEW c \in Int, NEW m \in Nat \ {0},
           Same(a, b, m), Same(b, c, m)
    PROVE  Same(a, c, m)
<1>1. PICK k \in Int : a - b = k * m
  BY DEF Same
<1>2. PICK l \in Int : b - c = l * m
  BY DEF Same
<1>3. a - c = (k + l) * m /\ k + l \in Int
  BY <1>1, <1>2, Z3
<1>4. QED
  BY <1>3 DEF Same

LEMMA SameSum ==
    ASSUME NEW a \in Int, NEW b \in Int, NEW c \in Int, NEW d \in Int, NEW m \in Nat \ {0},
           Same(a, b, m), Same(c, d, m)
    PROVE  Same(a + c, b + d, m) /\ Same(a - c, b - d, m)
<1>1. PICK k \in Int : a - b = k * m
  BY DEF Same
<1>2. PICK l \in Int : c - d = l * m
  BY DEF Same
<1>3. (a + c) - (b + d) = (k + l) * m /\ k + l \in Int
  BY <1>1, <1>2, Z3
<1>4. (a - c) - (b - d) = (k - l) * m /\ k - l \in Int
  BY <1>1, <1>2, Z3
<1>5. QED
  BY <1>3, <1>4 DEF Same

LEMMA SameProduct ==
    ASSUME NEW a \in Int, NEW b \in Int, NEW c \in Int, NEW d \in Int, NEW m \in Nat \ {0},
           Same(a, b, m), Same(c, d, m)
    PROVE  Same(a * c, b * d, m)
<1>1. PICK k \in Int : a - b = k * m
  BY DEF Same
<1>2. PICK l \in Int : c - d = l * m
  BY DEF Same
<1>3. a * c - b * d = (a - b) * c + b * (c - d)
  BY Z3
<1>4. (a - b) * c + b * (c - d) = (k * c + b * l) * m
  <2>1. (k * m) * c + b * (l * m) = (k * c + b * l) * m
    BY <1>1, <1>2, Z3
  <2>2. QED
    BY <1>1, <1>2, <2>1
<1>5. k * c + b * l \in Int
  BY <1>1, <1>2
<1>6. a * c - b * d = (k * c + b * l) * m
  BY <1>3, <1>4
<1>7. QED
  BY <1>5, <1>6 DEF Same

(* A remainder is the same as the number. *)
LEMMA SameRemainder ==
    ASSUME NEW a \in Int, NEW m \in Nat \ {0}
    PROVE  Same(a % m, a, m) /\ Same(a, a % m, m) /\ a % m \in 0 .. m - 1 /\ a % m \in Int
<1> DEFINE d == a \div m
           e == a % m
<1>1. d \in Int /\ e \in Int /\ a = m * d + e /\ 0 <= e /\ e < m
  BY Division
<1> HIDE DEF d, e
<1>2. e - a = (-d) * m /\ -d \in Int
  BY <1>1, Z3
<1>3. Same(e, a, m)
  BY <1>2 DEF Same
<1>4. Same(a, e, m)
  BY <1>1, <1>3, SameSym
<1>5. QED
  BY <1>1, <1>3, <1>4 DEF e

(* Remainders that are the same are equal. *)
LEMMA SameSmall ==
    ASSUME NEW m \in Nat \ {0}, NEW a \in 0 .. m - 1, NEW b \in 0 .. m - 1, Same(a, b, m)
    PROVE  a = b
<1>1. PICK k \in Int : a - b = k * m
  BY DEF Same
<1>2. a \in Int /\ b \in Int /\ -m < a - b /\ a - b < m
  OBVIOUS
<1>3. k * m < 1 * m /\ (-1) * m < k * m
  BY <1>1, <1>2
<1>4. k < 1 /\ -1 < k
  BY <1>1, <1>3, ProductStrict
<1>5. k = 0
  BY <1>1, <1>4
<1>6. QED
  BY <1>1, <1>2, <1>5

LEMMA SameIff ==
    ASSUME NEW a \in Int, NEW b \in Int, NEW m \in Nat \ {0}
    PROVE  Same(a, b, m) <=> a % m = b % m
<1>1. /\ Same(a % m, a, m) /\ Same(a, a % m, m) /\ a % m \in 0 .. m - 1 /\ a % m \in Int
      /\ Same(b % m, b, m) /\ Same(b, b % m, m) /\ b % m \in 0 .. m - 1 /\ b % m \in Int
  BY SameRemainder
<1>2. ASSUME Same(a, b, m) PROVE a % m = b % m
  <2>1. Same(a % m, b, m)
    BY <1>1, <1>2, SameTrans
  <2>2. Same(a % m, b % m, m)
    BY <1>1, <2>1, SameTrans
  <2>3. QED
    BY <1>1, <2>2, SameSmall
<1>3. ASSUME a % m = b % m PROVE Same(a, b, m)
  <2>1. Same(a % m, b, m)
    BY <1>1, <1>3
  <2>2. QED
    BY <1>1, <2>1, SameTrans
<1>4. QED
  BY <1>2, <1>3

LEMMA SmallRemainder ==
    ASSUME NEW m \in Nat \ {0}, NEW a \in 0 .. m - 1
    PROVE  a % m = a
<1>1. a \in Int
  OBVIOUS
<1>2. Same(a % m, a, m) /\ a % m \in 0 .. m - 1
  BY <1>1, SameRemainder
<1>3. QED
  BY <1>2, SameSmall

LEMMA SameZero ==
    ASSUME NEW a \in Int, NEW m \in Nat \ {0}
    PROVE  a % m = 0 <=> Same(a, 0, m)
<1>1. 0 \in 0 .. m - 1 /\ 0 \in Int
  OBVIOUS
<1>2. 0 % m = 0
  BY <1>1, SmallRemainder
<1>3. QED
  BY <1>1, <1>2, SameIff

(* A difference that vanishes says that its sides are the same. *)
LEMMA SameDifference ==
    ASSUME NEW a \in Int, NEW b \in Int, NEW m \in Nat \ {0}
    PROVE  (a - b) % m = 0 <=> Same(a, b, m)
<1>1. a - b \in Int /\ (a - b) - 0 = a - b
  OBVIOUS
<1>2. Same(a - b, 0, m) <=> Same(a, b, m)
  BY <1>1 DEF Same
<1>3. QED
  BY <1>1, <1>2, SameZero

(* Equal numbers are the same. *)
LEMMA SameEqual ==
    ASSUME NEW a \in Int, NEW b \in Int, NEW m \in Nat \ {0}, a = b
    PROVE  Same(a, b, m)
  BY SameRefl
-----------------------------------------------------------------------------
(* Inverses modulo a prime.                                                *)
IsPrime(m) == m \in Nat /\ 1 < m /\ \A d \in 2 .. m - 1 : m % d # 0

Reaches(a, v, m) == \E i \in Int : Same(a * i, v, m)

(* The least multiple of a that is not zero modulo a prime is one: it divides
   the prime. *)
LEMMA ReachesOne ==
    ASSUME NEW m, IsPrime(m), NEW a \in Int, a % m # 0
    PROVE  Reaches(a, 1, m)
<1>0. m \in Nat \ {0} /\ 1 < m /\ \A d \in 2 .. m - 1 : m % d # 0
  BY DEF IsPrime
<1> DEFINE Low == {v \in 1 .. m - 1 : Reaches(a, v, m)}
<1>1. a % m \in Low
  <2>1. Same(a, a % m, m) /\ a % m \in 0 .. m - 1
    BY <1>0, SameRemainder
  <2>2. a * 1 = a /\ 1 \in Int
    OBVIOUS
  <2>3. Reaches(a, a % m, m)
    BY <2>1, <2>2 DEF Reaches
  <2>4. a % m \in 1 .. m - 1
    BY <2>1
  <2>5. QED
    BY <2>3, <2>4
<1>2. PICK v \in Low : \A x \in Low : ~(x < v)
  <2>1. Low \in SUBSET Nat /\ Low # {}
    BY <1>1
  <2> HIDE DEF Low
  <2>2. QED
    BY <2>1, LeastElement
<1>3. v \in 1 .. m - 1 /\ Reaches(a, v, m)
  BY <1>2
<1>4. PICK i \in Int : Same(a * i, v, m)
  BY <1>3 DEF Reaches
<1>5. PICK k \in Int : a * i - v = k * m
  BY <1>4 DEF Same
<1> DEFINE d == m \div v
           e == m % v
<1>6. v \in Nat \ {0} /\ d \in Int /\ e \in Int /\ m = v * d + e /\ 0 <= e /\ e < v
  <2>1. v \in Nat \ {0}
    BY <1>3
  <2>2. QED
    BY <1>0, <2>1, Division
<1>7. e = 0
  <2> SUFFICES ASSUME e # 0 PROVE FALSE
    OBVIOUS
  <2>1. e \in 1 .. m - 1
    BY <1>3, <1>6
  <2> HIDE DEF d, e
  <2>2. a * (-(i * d)) - e = (-(k * d) - 1) * m
    <3>1. v * d = (a * i - k * m) * d
      BY <1>5, <1>6
    <3>2. (a * i - k * m) * d = a * (i * d) - (k * d) * m
      BY <1>0, <1>5, <1>6, Z3
    <3>3. a * (-(i * d)) = -(a * (i * d))
      BY <1>6, Z3
    <3>4. (-(k * d) - 1) * m = -((k * d) * m) - m
      BY <1>0, <1>5, <1>6, Z3
    <3> DEFINE s == a * (i * d)
               t == (k * d) * m
               u == v * d
    <3>5. s \in Int /\ t \in Int /\ u \in Int
      BY <1>0, <1>5, <1>6
    <3>6. u = s - t /\ m = u + e
      BY <1>6, <3>1, <3>2
    <3>7. a * (-(i * d)) = -s /\ (-(k * d) - 1) * m = -t - m
      BY <3>3, <3>4
    <3> HIDE DEF s, t, u
    <3>8. -s - e = -t - m
      BY <1>0, <1>6, <3>5, <3>6
    <3>9. QED
      BY <3>7, <3>8
  <2>3. -(i * d) \in Int /\ -(k * d) - 1 \in Int
    BY <1>5, <1>6
  <2>4. Reaches(a, e, m)
    BY <2>2, <2>3 DEF Same, Reaches
  <2>5. e \in Low
    BY <2>1, <2>4
  <2>6. QED
    BY <1>2, <1>6, <2>5
<1>8. v \notin 2 .. m - 1
  BY <1>0, <1>7
<1>9. v = 1
  BY <1>3, <1>8
<1>10. QED
  BY <1>3, <1>9

LEMMA InverseExists ==
    ASSUME NEW m, IsPrime(m), NEW a \in Int, a % m # 0
    PROVE  \E i \in 1 .. m - 1 : (a * i) % m = 1
<1>0. m \in Nat \ {0} /\ 1 < m
  BY DEF IsPrime
<1>1. PICK k \in Int : Same(a * k, 1, m)
  BY ReachesOne DEF Reaches
<1> DEFINE i == k % m
<1>2. Same(i, k, m) /\ i \in 0 .. m - 1 /\ i \in Int
  BY <1>0, SameRemainder
<1> HIDE DEF i
<1>3. Same(a, a, m)
  BY <1>0, SameRefl
<1>4. Same(a * i, a * k, m)
  BY <1>0, <1>2, <1>3, SameProduct
<1>5. a * i \in Int /\ a * k \in Int /\ 1 \in Int
  BY <1>2
<1>6. Same(a * i, 1, m)
  BY <1>0, <1>1, <1>4, <1>5, SameTrans
<1>7. (a * i) % m = 1 % m
  BY <1>0, <1>5, <1>6, SameIff
<1>8. 1 % m = 1
  <2>1. 1 \in 0 .. m - 1
    BY <1>0
  <2>2. QED
    BY <1>0, <2>1, SmallRemainder
<1>9. i # 0
  <2> SUFFICES ASSUME i = 0 PROVE FALSE
    OBVIOUS
  <2>1. a * i = 0
    OBVIOUS
  <2>2. 0 % m = 0
    <3>1. 0 \in 0 .. m - 1
      BY <1>0
    <3>2. QED
      BY <1>0, <3>1, SmallRemainder
  <2>3. QED
    BY <1>7, <1>8, <2>1, <2>2
<1>10. i \in 1 .. m - 1
  BY <1>2, <1>9
<1>11. QED
  BY <1>7, <1>8, <1>10

(* Two inverses of a number are the same. *)
LEMMA InverseUnique ==
    ASSUME NEW m \in Nat \ {0}, NEW a \in Int, NEW i \in Int, NEW j \in Int,
           Same(a * i, 1, m), Same(a * j, 1, m)
    PROVE  Same(i, j, m)
<1>1. Same(i, i, m) /\ Same(j, j, m)
  BY SameRefl
<1>2. a * i \in Int /\ a * j \in Int /\ 1 \in Int
  OBVIOUS
<1>3. Same((a * i) * j, 1 * j, m) /\ Same((a * j) * i, 1 * i, m)
  BY <1>1, <1>2, SameProduct
<1>4. (a * i) * j = (a * j) * i /\ 1 * j = j /\ 1 * i = i /\ (a * j) * i \in Int
  BY Z3
<1>5. Same(i, (a * j) * i, m)
  BY <1>3, <1>4, SameSym
<1>6. QED
  BY <1>3, <1>4, <1>5, SameTrans

(* Equal multiples of a number that has an inverse are multiples of the same. *)
LEMMA SameCancel ==
    ASSUME NEW m, IsPrime(m), NEW a \in Int, a % m # 0, NEW b \in Int, NEW c \in Int,
           Same(a * b, a * c, m)
    PROVE  Same(b, c, m)
<1>0. m \in Nat \ {0}
  BY DEF IsPrime
<1>1. PICK i \in Int : Same(a * i, 1, m)
  BY ReachesOne DEF Reaches
<1>2. Same(i, i, m) /\ Same(b, b, m) /\ Same(c, c, m)
  BY <1>0, SameRefl
<1>3. a * b \in Int /\ a * c \in Int /\ a * i \in Int /\ 1 \in Int
  OBVIOUS
<1>4. Same((a * b) * i, (a * c) * i, m)
  BY <1>0, <1>2, <1>3, SameProduct
<1>5. Same((a * i) * b, 1 * b, m) /\ Same((a * i) * c, 1 * c, m)
  BY <1>0, <1>1, <1>2, <1>3, SameProduct
<1>6. /\ (a * b) * i = (a * i) * b /\ (a * c) * i = (a * i) * c /\ 1 * b = b /\ 1 * c = c
      /\ (a * i) * b \in Int /\ (a * i) * c \in Int
  BY Z3
<1>7. Same((a * i) * b, (a * i) * c, m)
  BY <1>4, <1>6
<1>8. Same(b, (a * i) * b, m)
  BY <1>0, <1>5, <1>6, SameSym
<1>9. Same(b, (a * i) * c, m)
  BY <1>0, <1>6, <1>7, <1>8, SameTrans
<1>10. QED
  BY <1>0, <1>5, <1>6, <1>9, SameTrans

(* Euclid's lemma. *)
LEMMA NoZeroDivisors ==
    ASSUME NEW m, IsPrime(m), NEW a \in Int, NEW b \in Int, (a * b) % m = 0
    PROVE  a % m = 0 \/ b % m = 0
<1> SUFFICES ASSUME a % m # 0 PROVE b % m = 0
  OBVIOUS
<1>0. m \in Nat \ {0}
  BY DEF IsPrime
<1>1. Same(a * b, 0, m)
  <2>1. a * b \in Int
    OBVIOUS
  <2>2. QED
    BY <1>0, <2>1, SameZero
<1>2. a * 0 = 0 /\ 0 \in Int
  OBVIOUS
<1>3. Same(b, 0, m)
  BY <1>1, <1>2, SameCancel
<1>4. QED
  BY <1>0, <1>3, SameZero

LEMMA PrimesFacts ==
    /\ IsPrime(P) /\ IsPrime(N) /\ P \in Nat \ {0} /\ N \in Nat \ {0}
    /\ 1 < N /\ N < P /\ P < 2 * N /\ B \in Nat
<1>1. P \in Nat /\ N \in Nat /\ B \in Nat /\ 1 < N /\ N < P /\ P < 2 * N
  BY CurveAssumption
<1>2. QED
  BY <1>1, PrimeAssumption DEF IsPrime

(* The inverses that the code computes. *)
LEMMA FieldInverseFacts ==
    ASSUME NEW a \in Int, a % P # 0
    PROVE  /\ FieldInverse(a) \in 1 .. P - 1 /\ FieldInverse(a) \in Int
           /\ Same(a * FieldInverse(a), 1, P)
<1>0. P \in Nat \ {0} /\ 1 < P /\ IsPrime(P)
  BY PrimesFacts
<1> DEFINE i == FieldInverse(a)
<1>1. i \in 1 .. P - 1 /\ (a * i) % P = 1
  BY <1>0, InverseExists DEF FieldInverse
<1> HIDE DEF i
<1>2. 1 % P = 1
  <2>1. 1 \in 0 .. P - 1
    BY <1>0
  <2>2. QED
    BY <1>0, <2>1, SmallRemainder
<1>3. i \in Int
  BY <1>1
<1>4. a * i \in Int /\ 1 \in Int
  BY <1>3
<1>5. Same(a * i, 1, P)
  BY <1>0, <1>1, <1>2, <1>4, SameIff
<1>6. QED
  BY <1>1, <1>3, <1>5 DEF i

LEMMA ScalarInverseFacts ==
    ASSUME NEW s \in 1 .. N - 1
    PROVE  /\ ScalarInverse(s) \in 1 .. N - 1 /\ ScalarInverse(s) \in Int
           /\ (s * ScalarInverse(s)) % N = 1
<1>0. N \in Nat \ {0} /\ 1 < N /\ IsPrime(N)
  BY PrimesFacts
<1>1. s \in Int /\ s \in 0 .. N - 1 /\ s # 0
  BY <1>0
<1>2. s % N = s
  BY <1>0, <1>1, SmallRemainder
<1> DEFINE i == ScalarInverse(s)
<1>3. \E k \in 1 .. N - 1 : (s * k) % N = 1
  BY <1>0, <1>1, <1>2, InverseExists
<1>4. i \in 1 .. N - 1 /\ (s * i) % N = 1
  BY <1>3 DEF ScalarInverse
<1> HIDE DEF i
<1>5. i \in Int
  BY <1>4
<1>6. QED
  BY <1>4, <1>5 DEF i
-----------------------------------------------------------------------------
(* Multiples of a point: the recursion of Multiple is defined everywhere,  *)
IsTimes(f, n, pt) == f = [i \in 0 .. n |-> IF i = 0 THEN Infinity ELSE AddPoints(f[i - 1], pt)]
TimesExist(n, pt) == \E f : IsTimes(f, n, pt)

LEMMA TimesGrow ==
    ASSUME NEW n \in Nat, NEW pt, TimesExist(n, pt)
    PROVE  TimesExist(n + 1, pt)
<1>1. PICK f : IsTimes(f, n, pt)
  BY DEF TimesExist
<1> DEFINE w == [i \in 0 .. n + 1 |-> IF i = n + 1 THEN AddPoints(f[n], pt) ELSE f[i]]
<1>2. ASSUME NEW i \in 0 .. n + 1
      PROVE  w[i] = IF i = 0 THEN Infinity ELSE AddPoints(w[i - 1], pt)
  <2>1. CASE i = n + 1
    <3>1. i # 0 /\ i - 1 = n /\ n \in 0 .. n + 1 /\ n # n + 1
      BY <2>1
    <3>2. QED
      BY <2>1, <3>1
  <2>2. CASE i # n + 1
    <3>1. i \in 0 .. n
      BY <2>2
    <3>2. f[i] = IF i = 0 THEN Infinity ELSE AddPoints(f[i - 1], pt)
      BY <1>1, <3>1 DEF IsTimes
    <3>3. i # 0 => i - 1 \in 0 .. n + 1 /\ i - 1 # n + 1
      BY <3>1
    <3>4. QED
      BY <2>2, <3>2, <3>3
  <2>3. QED
    BY <2>1, <2>2
<1>3. w = [i \in 0 .. n + 1 |-> IF i = 0 THEN Infinity ELSE AddPoints(w[i - 1], pt)]
  BY <1>2
<1>4. IsTimes(w, n + 1, pt)
  BY <1>3 DEF IsTimes
<1>5. QED
  BY <1>4 DEF TimesExist

LEMMA TimesDefined ==
    ASSUME NEW n \in Nat, NEW pt
    PROVE  TimesExist(n, pt)
<1> DEFINE G == {i \in Nat : TimesExist(i, pt)}
<1>1. 0 \in G
  <2> DEFINE f == [i \in 0 .. 0 |-> Infinity]
  <2>1. \A i \in 0 .. 0 : i = 0
    OBVIOUS
  <2>2. f = [i \in 0 .. 0 |-> IF i = 0 THEN Infinity ELSE AddPoints(f[i - 1], pt)]
    BY <2>1
  <2>3. IsTimes(f, 0, pt)
    BY <2>2 DEF IsTimes
  <2>4. QED
    BY <2>3 DEF TimesExist
<1>2. \A i \in 0 .. n - 1 : i \in G => i + 1 \in G
  BY TimesGrow
<1> HIDE DEF G
<1>3. \A i \in 0 .. n : i \in G
  BY <1>1, <1>2, Climb
<1>4. n \in G
  BY <1>3
<1>5. QED
  BY <1>4 DEF G

LEMMA TimesUnique ==
    ASSUME NEW m \in Nat, NEW n \in Nat, m <= n, NEW pt, NEW f, NEW w,
           IsTimes(f, m, pt), IsTimes(w, n, pt)
    PROVE  \A i \in 0 .. m : f[i] = w[i]
<1> DEFINE G == {i \in 0 .. m : f[i] = w[i]}
<1>0. /\ \A i \in 0 .. m : f[i] = IF i = 0 THEN Infinity ELSE AddPoints(f[i - 1], pt)
      /\ \A i \in 0 .. n : w[i] = IF i = 0 THEN Infinity ELSE AddPoints(w[i - 1], pt)
  BY DEF IsTimes
<1>1. 0 \in G
  BY <1>0
<1>2. ASSUME NEW i \in 0 .. m - 1, i \in G PROVE i + 1 \in G
  <2>1. i + 1 \in 0 .. m /\ i + 1 \in 0 .. n /\ i + 1 # 0 /\ (i + 1) - 1 = i
    OBVIOUS
  <2>2. f[i + 1] = AddPoints(f[i], pt) /\ w[i + 1] = AddPoints(w[i], pt)
    BY <1>0, <2>1
  <2>3. QED
    BY <1>2, <2>1, <2>2
<1> HIDE DEF G
<1>3. \A i \in 0 .. m : i \in G
  BY <1>1, <1>2, Climb
<1>4. QED
  BY <1>3 DEF G

LEMMA MultipleIsLast ==
    ASSUME NEW n \in Nat, NEW pt
    PROVE  \E f : IsTimes(f, n, pt) /\ Multiple(n, pt) = f[n]
<1> DEFINE v == CHOOSE f : IsTimes(f, n, pt)
<1>1. IsTimes(v, n, pt)
  BY TimesDefined DEF TimesExist
<1>2. Multiple(n, pt) = v[n]
  BY DEF Multiple, IsTimes
<1> HIDE DEF v
<1>3. QED
  BY <1>1, <1>2

LEMMA MultipleZero ==
    ASSUME NEW pt
    PROVE  Multiple(0, pt) = Infinity
<1>1. PICK f : IsTimes(f, 0, pt) /\ Multiple(0, pt) = f[0]
  BY MultipleIsLast
<1>2. QED
  BY <1>1 DEF IsTimes

LEMMA MultipleStep ==
    ASSUME NEW n \in Nat, NEW pt
    PROVE  Multiple(n + 1, pt) = AddPoints(Multiple(n, pt), pt)
<1>1. PICK f : IsTimes(f, n, pt) /\ Multiple(n, pt) = f[n]
  BY MultipleIsLast
<1>2. PICK w : IsTimes(w, n + 1, pt) /\ Multiple(n + 1, pt) = w[n + 1]
  <2>1. n + 1 \in Nat
    OBVIOUS
  <2>2. QED
    BY <2>1, MultipleIsLast
<1>3. \A i \in 0 .. n : f[i] = w[i]
  <2>1. n + 1 \in Nat /\ n <= n + 1
    OBVIOUS
  <2>2. QED
    BY <1>1, <1>2, <2>1, TimesUnique
<1>4. w[n + 1] = AddPoints(w[n], pt)
  <2>1. n + 1 \in 0 .. n + 1 /\ n + 1 # 0 /\ (n + 1) - 1 = n
    OBVIOUS
  <2>2. QED
    BY <1>2, <2>1 DEF IsTimes
<1>5. n \in 0 .. n
  OBVIOUS
<1>6. QED
  BY <1>1, <1>2, <1>3, <1>4, <1>5

-----------------------------------------------------------------------------
(* The group.                                                              *)
LEMMA Closed ==
    ASSUME NEW a \in Points, NEW b \in Points
    PROVE  AddPoints(a, b) \in Points
  BY GroupAssumption

LEMMA Associative ==
    ASSUME NEW a \in Points, NEW b \in Points, NEW c \in Points
    PROVE  AddPoints(AddPoints(a, b), c) = AddPoints(a, AddPoints(b, c))
  BY GroupAssumption

LEMMA Neutral ==
    ASSUME NEW a
    PROVE  AddPoints(a, Infinity) = a /\ AddPoints(Infinity, a) = a
  BY DEF AddPoints

LEMMA InfinityPoint == Infinity \in Points /\ Infinity \notin Affine
  BY DEF Points, Affine, Infinity

LEMMA AffineFacts ==
    ASSUME NEW a \in Affine
    PROVE  /\ a \in Points /\ a # Infinity /\ a = <<a[1], a[2]>>
           /\ a[1] \in 0 .. P - 1 /\ a[2] \in 0 .. P - 1 /\ a[1] \in Int /\ a[2] \in Int
           /\ OnCurve(a)
<1>1. a \in Points /\ a \in Field \X Field /\ OnCurve(a)
  BY DEF Points, Affine
<1>2. a # Infinity
  BY InfinityPoint
<1>3. a = <<a[1], a[2]>> /\ a[1] \in Field /\ a[2] \in Field
  BY <1>1
<1>4. QED
  BY <1>1, <1>2, <1>3 DEF Field

LEMMA PointCases ==
    ASSUME NEW a \in Points, a # Infinity
    PROVE  a \in Affine
  BY DEF Points

LEMMA MultiplePoint ==
    ASSUME NEW n \in Nat, NEW pt \in Points
    PROVE  Multiple(n, pt) \in Points
<1> DEFINE G == {i \in 0 .. n : Multiple(i, pt) \in Points}
<1>1. 0 \in G
  BY MultipleZero, InfinityPoint
<1>2. ASSUME NEW i \in 0 .. n - 1, i \in G PROVE i + 1 \in G
  <2>1. Multiple(i + 1, pt) = AddPoints(Multiple(i, pt), pt)
    BY MultipleStep
  <2>2. i + 1 \in 0 .. n
    OBVIOUS
  <2>3. Multiple(i, pt) \in Points
    BY <1>2
  <2>4. QED
    BY <2>1, <2>2, <2>3, Closed
<1> HIDE DEF G
<1>3. \A i \in 0 .. n : i \in G
  BY <1>1, <1>2, Climb
<1>4. n \in G
  BY <1>3
<1>5. QED
  BY <1>4 DEF G

LEMMA MultipleOne ==
    ASSUME NEW pt
    PROVE  Multiple(1, pt) = pt
<1>1. Multiple(0 + 1, pt) = AddPoints(Multiple(0, pt), pt)
  BY MultipleStep
<1>2. 0 + 1 = 1
  OBVIOUS
<1>3. QED
  BY <1>1, <1>2, MultipleZero, Neutral

(* Multiples add like their factors. *)
LEMMA MultipleSum ==
    ASSUME NEW m \in Nat, NEW n \in Nat, NEW pt \in Points
    PROVE  Multiple(m + n, pt) = AddPoints(Multiple(m, pt), Multiple(n, pt))
<1> DEFINE G == {i \in 0 .. n : Multiple(m + i, pt) = AddPoints(Multiple(m, pt), Multiple(i, pt))}
<1>1. 0 \in G
  <2>1. m + 0 = m
    OBVIOUS
  <2>2. QED
    BY <2>1, MultipleZero, Neutral
<1>2. ASSUME NEW i \in 0 .. n - 1, i \in G PROVE i + 1 \in G
  <2>1. Multiple(m + i, pt) = AddPoints(Multiple(m, pt), Multiple(i, pt))
    BY <1>2
  <2>2. m + i \in Nat /\ m + (i + 1) = (m + i) + 1 /\ i \in Nat /\ i + 1 \in 0 .. n
    OBVIOUS
  <2>3. Multiple(m + (i + 1), pt) = AddPoints(Multiple(m + i, pt), pt)
    BY <2>2, MultipleStep
  <2>4. Multiple(i + 1, pt) = AddPoints(Multiple(i, pt), pt)
    BY <2>2, MultipleStep
  <2>5. Multiple(m, pt) \in Points /\ Multiple(i, pt) \in Points
    BY <2>2, MultiplePoint
  <2>6. AddPoints(AddPoints(Multiple(m, pt), Multiple(i, pt)), pt)
        = AddPoints(Multiple(m, pt), AddPoints(Multiple(i, pt), pt))
    BY <2>5, Associative
  <2>7. QED
    BY <2>1, <2>2, <2>3, <2>4, <2>6
<1> HIDE DEF G
<1>3. \A i \in 0 .. n : i \in G
  BY <1>1, <1>2, Climb
<1>4. n \in G
  BY <1>3
<1>5. QED
  BY <1>4 DEF G

(* A multiple of what vanishes vanishes. *)
LEMMA MultipleVanishes ==
    ASSUME NEW m \in Nat, NEW k \in Nat, NEW pt \in Points, Multiple(k, pt) = Infinity
    PROVE  Multiple(m * k, pt) = Infinity
<1> DEFINE G == {i \in 0 .. m : Multiple(i * k, pt) = Infinity}
<1>1. 0 \in G
  <2>1. 0 * k = 0
    OBVIOUS
  <2>2. QED
    BY <2>1, MultipleZero
<1>2. ASSUME NEW i \in 0 .. m - 1, i \in G PROVE i + 1 \in G
  <2>1. (i + 1) * k = i * k + k /\ i * k \in Nat /\ i + 1 \in 0 .. m
    BY Z3
  <2>2. Multiple(i * k + k, pt) = AddPoints(Multiple(i * k, pt), Multiple(k, pt))
    BY <2>1, MultipleSum
  <2>3. QED
    BY <1>2, <2>1, <2>2, Neutral
<1> HIDE DEF G
<1>3. \A i \in 0 .. m : i \in G
  BY <1>1, <1>2, Climb
<1>4. m \in G
  BY <1>3
<1>5. QED
  BY <1>4 DEF G

(* Factors count modulo the order of the group. *)
LEMMA MultipleModulo ==
    ASSUME NEW k \in Nat, NEW pt \in Points
    PROVE  Multiple(k, pt) = Multiple(k % N, pt)
<1>0. N \in Nat \ {0}
  BY PrimesFacts
<1> DEFINE d == k \div N
           e == k % N
<1>1. d \in Int /\ e \in Int /\ k = N * d + e /\ 0 <= e /\ e < N
  BY <1>0, Division
<1> HIDE DEF d, e
<1>2. d >= 0
  <2>1. (-1) * N < d * N
    <3>1. d * N = N * d
      BY <1>0, <1>1, Z3
    <3> DEFINE x == N * d
    <3>2. x \in Int /\ k = x + e
      BY <1>0, <1>1
    <3> HIDE DEF x
    <3>3. -N < x
      BY <1>0, <1>1, <3>2
    <3>4. QED
      BY <1>0, <3>1, <3>3 DEF x
  <2>2. QED
    BY <1>0, <1>1, <2>1, ProductStrict
<1>3. d \in Nat /\ e \in Nat /\ d * N \in Nat /\ k = d * N + e
  BY <1>0, <1>1, <1>2, Z3
<1>4. Multiple(N, pt) = Infinity
  BY GroupAssumption
<1>5. Multiple(d * N, pt) = Infinity
  BY <1>0, <1>3, <1>4, MultipleVanishes
<1>6. Multiple(d * N + e, pt) = AddPoints(Multiple(d * N, pt), Multiple(e, pt))
  BY <1>3, MultipleSum
<1>7. QED
  BY <1>3, <1>5, <1>6, Neutral DEF e

(* Only the multiples of the order make a point vanish. *)
LEMMA MultipleInfinity ==
    ASSUME NEW k \in Nat, NEW pt \in Affine
    PROVE  Multiple(k, pt) = Infinity <=> k % N = 0
<1>0. N \in Nat \ {0} /\ IsPrime(N) /\ 1 < N
  BY PrimesFacts
<1>1. pt \in Points /\ pt # Infinity
  BY AffineFacts
<1>2. ASSUME k % N = 0 PROVE Multiple(k, pt) = Infinity
  BY <1>1, <1>2, MultipleModulo, MultipleZero
<1>3. ASSUME Multiple(k, pt) = Infinity, k % N # 0 PROVE FALSE
  <2>0. k \in Int
    OBVIOUS
  <2>1. \E i \in 1 .. N - 1 : (k * i) % N = 1
    BY <1>0, <1>3, <2>0, InverseExists
  <2>2. PICK i \in 1 .. N - 1 : (k * i) % N = 1
    BY <2>1
  <2>3. i \in Nat /\ i * k = k * i /\ i * k \in Nat
    BY Z3
  <2>4. Multiple(i * k, pt) = Infinity
    BY <1>1, <1>3, <2>3, MultipleVanishes
  <2>5. Multiple(i * k, pt) = Multiple(1, pt)
    BY <1>1, <2>2, <2>3, MultipleModulo
  <2>6. QED
    BY <1>1, <2>4, <2>5, MultipleOne
<1>4. QED
  BY <1>2, <1>3
-----------------------------------------------------------------------------
(* Opposite points and points with one abscissa.                           *)
LEMMA NegateFacts ==
    ASSUME NEW a \in Affine
    PROVE  /\ Negate(a) \in Affine /\ Negate(a)[1] = a[1] /\ Negate(a)[2] = (-a[2]) % P
           /\ AddPoints(a, Negate(a)) = Infinity
<1>0. P \in Nat \ {0} /\ B \in Nat
  BY PrimesFacts
<1>1. /\ a # Infinity /\ a[1] \in 0 .. P - 1 /\ a[2] \in 0 .. P - 1
      /\ a[1] \in Int /\ a[2] \in Int /\ OnCurve(a)
  BY AffineFacts
<1> DEFINE y == a[2]
           z == (-a[2]) % P
<1>2. -y \in Int /\ y \in Int
  BY <1>1
<1>3. Same(z, -y, P) /\ z \in 0 .. P - 1 /\ z \in Int
  BY <1>0, <1>2, SameRemainder
<1>4. Negate(a) = <<a[1], z>>
  BY <1>1 DEF Negate
<1>5. Negate(a)[1] = a[1] /\ Negate(a)[2] = z
  BY <1>4
<1> HIDE DEF z
<1>6. (z * z) % P = (y * y) % P
  <2>1. Same(z * z, (-y) * (-y), P)
    BY <1>0, <1>2, <1>3, SameProduct
  <2>2. (-y) * (-y) = y * y /\ y * y \in Int /\ z * z \in Int
    BY <1>2, <1>3, Z3
  <2>3. QED
    BY <1>0, <2>1, <2>2, SameIff
<1>7. OnCurve(Negate(a))
  <2>1. (y * y) % P = (a[1] * a[1] * a[1] - 3 * a[1] + B) % P
    BY <1>1 DEF OnCurve
  <2>2. (Negate(a)[2] * Negate(a)[2]) % P = (y * y) % P
    BY <1>5, <1>6
  <2>3. QED
    BY <1>5, <2>1, <2>2 DEF OnCurve
<1>8. Negate(a) \in Affine
  BY <1>1, <1>3, <1>4, <1>7 DEF Affine, Field
<1>9. Negate(a) # Infinity
  BY <1>8, AffineFacts
<1>10. (a[2] + Negate(a)[2]) % P = 0
  <2>1. Same(y + z, y + (-y), P)
    <3>1. Same(y, y, P)
      BY <1>0, <1>2, SameRefl
    <3>2. QED
      BY <1>0, <1>2, <1>3, <3>1, SameSum
  <2>2. y + (-y) = 0 /\ y + z \in Int
    BY <1>2, <1>3
  <2>3. (y + z) % P = 0
    BY <1>0, <2>1, <2>2, SameZero
  <2>4. QED
    BY <1>5, <2>3
<1>11. AddPoints(a, Negate(a)) = Infinity
  BY <1>1, <1>5, <1>9, <1>10 DEF AddPoints
<1>12. QED
  BY <1>5, <1>8, <1>11 DEF z

(* A sum is the point at infinity only of opposite points. *)
LEMMA SumInfinity ==
    ASSUME NEW a \in Affine, NEW b \in Affine, AddPoints(a, b) = Infinity
    PROVE  a = Negate(b)
<1>0. P \in Nat \ {0}
  BY PrimesFacts
<1>1. /\ a # Infinity /\ a = <<a[1], a[2]>> /\ a[2] \in 0 .. P - 1 /\ a[2] \in Int
      /\ b # Infinity /\ b[2] \in 0 .. P - 1 /\ b[2] \in Int
  BY AffineFacts
<1>2. \A s, c, d : Chord(s, c, d) # Infinity
  BY DEF Chord, Infinity
<1>3. a[1] = b[1] /\ (a[2] + b[2]) % P = 0
  BY <1>1, <1>2 DEF AddPoints
<1>4. a[2] = (-b[2]) % P
  <2>1. a[2] - (-b[2]) = a[2] + b[2] /\ -b[2] \in Int
    BY <1>1
  <2>2. Same(a[2], -b[2], P)
    BY <1>0, <1>1, <1>3, <2>1, SameDifference
  <2>3. a[2] % P = a[2]
    BY <1>0, <1>1, SmallRemainder
  <2>4. QED
    BY <1>0, <1>1, <2>1, <2>2, <2>3, SameIff
<1>5. QED
  BY <1>1, <1>3, <1>4 DEF Negate

(* Two points with one abscissa are equal or opposite. *)
LEMMA SameAbscissa ==
    ASSUME NEW a \in Affine, NEW b \in Affine, a[1] = b[1]
    PROVE  a \in {b, Negate(b)}
<1>0. P \in Nat \ {0} /\ IsPrime(P) /\ B \in Nat
  BY PrimesFacts
<1>1. /\ a = <<a[1], a[2]>> /\ a[2] \in 0 .. P - 1 /\ a[2] \in Int /\ OnCurve(a)
      /\ b = <<b[1], b[2]>> /\ b[2] \in 0 .. P - 1 /\ b[2] \in Int /\ OnCurve(b) /\ b # Infinity
  BY AffineFacts
<1> DEFINE u == a[2]
           v == b[2]
<1>2. (u * u) % P = (v * v) % P
  BY <1>1 DEF OnCurve
<1>3. u \in Int /\ v \in Int /\ u \in 0 .. P - 1 /\ v \in 0 .. P - 1
  BY <1>1
<1>4. Negate(b) = <<b[1], (-v) % P>>
  BY <1>1 DEF Negate
<1>5. a = <<b[1], u>> /\ b = <<b[1], v>>
  BY <1>1
<1> HIDE DEF u, v
<1>6. ((u - v) * (u + v)) % P = 0
  <2>1. Same(u * u, v * v, P)
    <3>1. u * u \in Int /\ v * v \in Int
      BY <1>3
    <3>2. QED
      BY <1>0, <1>2, <3>1, SameIff
  <2>2. (u * u - v * v) % P = 0
    <3>1. u * u \in Int /\ v * v \in Int
      BY <1>3
    <3>2. QED
      BY <1>0, <2>1, <3>1, SameDifference
  <2>3. (u - v) * (u + v) = u * u - v * v
    BY <1>3, Z3
  <2>4. QED
    BY <2>2, <2>3
<1>7. (u - v) % P = 0 \/ (u + v) % P = 0
  <2>1. u - v \in Int /\ u + v \in Int
    BY <1>3
  <2>2. QED
    BY <1>0, <1>6, <2>1, NoZeroDivisors
<1>8. ASSUME (u - v) % P = 0 PROVE u = v
  <2>1. Same(u, v, P)
    BY <1>0, <1>3, <1>8, SameDifference
  <2>2. QED
    BY <1>0, <1>3, <2>1, SameSmall
<1>9. ASSUME (u + v) % P = 0 PROVE u = (-v) % P
  <2>1. u - (-v) = u + v /\ -v \in Int
    BY <1>3
  <2>2. Same(u, -v, P)
    BY <1>0, <1>3, <1>9, <2>1, SameDifference
  <2>3. u % P = u
    BY <1>0, <1>3, SmallRemainder
  <2>4. QED
    BY <1>0, <1>3, <2>1, <2>2, <2>3, SameIff
<1>10. QED
  BY <1>4, <1>5, <1>7, <1>8, <1>9

-----------------------------------------------------------------------------
(* The addition of points with two abscissae.                              *)
Pairs == Field \X Field

LEMMA PairFacts ==
    ASSUME NEW a \in Pairs
    PROVE  /\ a # Infinity /\ a = <<a[1], a[2]>> /\ a[1] \in 0 .. P - 1 /\ a[2] \in 0 .. P - 1
           /\ a[1] \in Int /\ a[2] \in Int
<1>1. a = <<a[1], a[2]>> /\ a[1] \in Field /\ a[2] \in Field
  BY DEF Pairs
<1>2. a # Infinity
  BY DEF Pairs, Infinity
<1>3. QED
  BY <1>1, <1>2 DEF Field

LEMMA AffinePairs == Affine \subseteq Pairs
  BY DEF Affine, Pairs

(* Abscissae in the field that differ do so modulo P. *)
LEMMA Apart ==
    ASSUME NEW x \in 0 .. P - 1, NEW y \in 0 .. P - 1
    PROVE  (x - y) % P = 0 <=> x = y
<1>0. P \in Nat \ {0} /\ x \in Int /\ y \in Int
  BY PrimesFacts
<1>1. (x - y) % P = 0 <=> Same(x, y, P)
  BY <1>0, SameDifference
<1>2. Same(x, y, P) => x = y
  BY <1>0, SameSmall
<1>3. Same(x, x, P)
  BY <1>0, SameRefl
<1>4. QED
  BY <1>1, <1>2, <1>3

(* A slope l is enough to tell the sum: the chord through a and b meets the
   curve again in its opposite. *)
LEMMA SumBySlope ==
    ASSUME NEW a \in Pairs, NEW b \in Pairs, a[1] # b[1], NEW r \in Pairs, NEW l \in Int,
           Same((b[1] - a[1]) * l, b[2] - a[2], P)
    PROVE  r = AddPoints(a, b) <=> /\ Same(l * l - a[1] - b[1], r[1], P)
                                   /\ Same(l * (a[1] - r[1]) - a[2], r[2], P)
<1>0. P \in Nat \ {0} /\ IsPrime(P)
  BY PrimesFacts
<1>1. /\ a # Infinity /\ a = <<a[1], a[2]>> /\ a[1] \in 0 .. P - 1 /\ a[2] \in 0 .. P - 1
      /\ a[1] \in Int /\ a[2] \in Int
      /\ b # Infinity /\ b = <<b[1], b[2]>> /\ b[1] \in 0 .. P - 1 /\ b[2] \in 0 .. P - 1
      /\ b[1] \in Int /\ b[2] \in Int
      /\ r = <<r[1], r[2]>> /\ r[1] \in 0 .. P - 1 /\ r[2] \in 0 .. P - 1
      /\ r[1] \in Int /\ r[2] \in Int
  BY PairFacts
<1> DEFINE a1 == a[1]
           a2 == a[2]
           b1 == b[1]
           b2 == b[2]
           r1 == r[1]
           r2 == r[2]
           d == b1 - a1
           e == b2 - a2
           i == FieldInverse(d % P)
           s == e * i
           x == (s * s - a1 - b1) % P
           y == (s * (a1 - x) - a2) % P
<1>2. AddPoints(a, b) = <<x, y>>
  <2>1. AddPoints(a, b) = Chord(s, a, b)
    BY <1>1 DEF AddPoints
  <2>2. Chord(s, a, b) = <<x, y>>
    BY DEF Chord
  <2>3. QED
    BY <2>1, <2>2
<1>3. /\ a1 \in Int /\ a2 \in Int /\ b1 \in Int /\ b2 \in Int /\ r1 \in Int /\ r2 \in Int
      /\ a1 \in 0 .. P - 1 /\ b1 \in 0 .. P - 1 /\ r1 \in 0 .. P - 1 /\ r2 \in 0 .. P - 1
      /\ a1 # b1 /\ r = <<r1, r2>> /\ Same(d * l, e, P)
  BY <1>1
<1> HIDE DEF a1, a2, b1, b2, r1, r2
<1>4. d \in Int /\ e \in Int /\ d % P # 0 /\ Same(d % P, d, P) /\ d % P \in Int /\ (d % P) % P # 0
  <2>1. d \in Int /\ e \in Int
    BY <1>3
  <2>2. d % P # 0
    BY <1>3, Apart
  <2>3. Same(d % P, d, P) /\ d % P \in Int /\ d % P \in 0 .. P - 1
    BY <1>0, <2>1, SameRemainder
  <2>4. (d % P) % P = d % P
    BY <1>0, <2>3, SmallRemainder
  <2>5. QED
    BY <2>1, <2>2, <2>3, <2>4
<1>5. i \in Int /\ Same((d % P) * i, 1, P)
  BY <1>4, FieldInverseFacts
<1>6. Same(l, s, P) /\ s \in Int
  <2> HIDE DEF i
  <2> DEFINE m == d % P
  <2>1. m \in Int /\ Same(m, d, P) /\ Same(m * i, 1, P)
    BY <1>4, <1>5
  <2> HIDE DEF d, e, m
  <2>2. s \in Int /\ d \in Int /\ e \in Int
    BY <1>4, <1>5
  <2>3. Same(m * s, e, P)
    <3>1. Same((m * i) * e, 1 * e, P)
      <4>1. Same(e, e, P) /\ m * i \in Int /\ 1 \in Int
        BY <1>0, <1>5, <2>1, <2>2, SameRefl
      <4>2. QED
        BY <1>0, <2>1, <2>2, <4>1, SameProduct
    <3>2. (m * i) * e = m * s /\ 1 * e = e
      BY <1>5, <2>1, <2>2, Z3
    <3>3. QED
      BY <3>1, <3>2
  <2>4. Same(m * s, d * s, P)
    <3>1. Same(s, s, P)
      BY <1>0, <2>2, SameRefl
    <3>2. QED
      BY <1>0, <2>1, <2>2, <3>1, SameProduct
  <2> DEFINE ms == m * s
             ds == d * s
             dl == d * l
  <2>5. ms \in Int /\ ds \in Int /\ dl \in Int
    BY <2>1, <2>2
  <2>6. Same(ms, e, P) /\ Same(ms, ds, P) /\ Same(dl, e, P)
    BY <1>3, <2>3, <2>4
  <2> HIDE DEF ms, ds, dl
  <2>7. Same(e, ms, P)
    BY <1>0, <2>2, <2>5, <2>6, SameSym
  <2>8. Same(dl, ms, P)
    BY <1>0, <2>2, <2>5, <2>6, <2>7, SameTrans
  <2>9. Same(dl, ds, P)
    BY <1>0, <2>2, <2>5, <2>6, <2>8, SameTrans
  <2>10. Same(l, s, P)
    BY <1>0, <1>4, <2>2, <2>9, SameCancel DEF dl, ds
  <2>11. QED
    BY <2>2, <2>10
<1> HIDE DEF s, d, e, i
<1>7. Same(l * l - a1 - b1, s * s - a1 - b1, P) /\ l * l - a1 - b1 \in Int /\ s * s - a1 - b1 \in Int
  <2>1. Same(l * l, s * s, P) /\ Same(a1, a1, P) /\ Same(b1, b1, P)
    BY <1>0, <1>3, <1>6, SameProduct, SameRefl
  <2> DEFINE ll == l * l
             ss == s * s
  <2>2. ll \in Int /\ ss \in Int
    BY <1>6
  <2>3. Same(ll, ss, P)
    BY <2>1
  <2> HIDE DEF ll, ss
  <2>4. Same(ll - a1, ss - a1, P) /\ ll - a1 \in Int /\ ss - a1 \in Int
    BY <1>0, <1>3, <2>1, <2>2, <2>3, SameSum
  <2>5. Same(ll - a1 - b1, ss - a1 - b1, P)
    BY <1>0, <1>3, <2>1, <2>4, SameSum
  <2>6. QED
    BY <1>3, <2>2, <2>5 DEF ll, ss
<1>8. x = r1 <=> Same(l * l - a1 - b1, r1, P)
  <2> DEFINE lx == l * l - a1 - b1
             sx == s * s - a1 - b1
  <2>1. lx \in Int /\ sx \in Int /\ Same(lx, sx, P) /\ x = sx % P
    BY <1>7
  <2> HIDE DEF lx, sx, x
  <2>2. lx % P = x
    BY <1>0, <2>1, SameIff
  <2>3. r1 % P = r1
    BY <1>0, <1>3, SmallRemainder
  <2>4. Same(lx, r1, P) <=> lx % P = r1 % P
    BY <1>0, <1>3, <2>1, SameIff
  <2>5. QED
    BY <2>2, <2>3, <2>4 DEF lx
<1>9. ASSUME x = r1 PROVE y = r2 <=> Same(l * (a1 - r1) - a2, r2, P)
  <2> DEFINE c == a1 - r1
             ly == l * c - a2
             sy == s * c - a2
  <2>1. y = sy % P
    BY <1>9
  <2>2. c \in Int
    BY <1>3
  <2> HIDE DEF c, y
  <2>3. Same(l * c, s * c, P) /\ l * c \in Int /\ s * c \in Int /\ Same(a2, a2, P)
    <3>1. Same(c, c, P) /\ Same(a2, a2, P)
      BY <1>0, <1>3, <2>2, SameRefl
    <3>2. QED
      BY <1>0, <1>6, <2>2, <3>1, SameProduct
  <2>4. Same(ly, sy, P) /\ ly \in Int /\ sy \in Int
    <3> DEFINE lc == l * c
               sc == s * c
    <3>1. lc \in Int /\ sc \in Int /\ Same(lc, sc, P) /\ ly = lc - a2 /\ sy = sc - a2
      BY <2>3
    <3> HIDE DEF lc, sc, ly, sy
    <3>2. Same(lc - a2, sc - a2, P)
      BY <1>0, <1>3, <2>3, <3>1, SameSum
    <3>3. QED
      BY <1>3, <3>1, <3>2
  <2> HIDE DEF ly, sy
  <2>5. ly % P = y
    BY <1>0, <2>1, <2>4, SameIff
  <2>6. r2 % P = r2
    BY <1>0, <1>3, SmallRemainder
  <2>7. Same(ly, r2, P) <=> ly % P = r2 % P
    BY <1>0, <1>3, <2>4, SameIff
  <2>8. QED
    BY <2>5, <2>6, <2>7 DEF ly, c
<1> HIDE DEF x, y
<1>10. r = AddPoints(a, b) <=> r1 = x /\ r2 = y
  BY <1>2, <1>3
<1>11. r1 = x /\ r2 = y
       <=> Same(l * l - a1 - b1, r1, P) /\ Same(l * (a1 - r1) - a2, r2, P)
  BY <1>8, <1>9
<1>12. QED
  BY <1>10, <1>11 DEF a1, a2, b1, b2, r1, r2
(* g lists the powers of b. *)
IsPowers(g, b, m) == g = [n \in 0 .. m |-> IF n = 0 THEN 1 ELSE b * g[n - 1]]
PowersExist(b, m) == \E g : IsPowers(g, b, m)

(* Powers can be continued by one, *)
LEMMA PowersGrow ==
    ASSUME NEW b, NEW n \in Nat, PowersExist(b, n)
    PROVE  PowersExist(b, n + 1)
<1>1. PICK v : IsPowers(v, b, n)
  BY DEF PowersExist
<1> DEFINE w == [i \in 0 .. n + 1 |-> IF i = n + 1 THEN b * v[n] ELSE v[i]]
<1>2. ASSUME NEW i \in 0 .. n + 1
      PROVE  w[i] = IF i = 0 THEN 1 ELSE b * w[i - 1]
  <2>1. CASE i = n + 1
    <3>1. i # 0 /\ i - 1 = n /\ n \in 0 .. n + 1 /\ n # n + 1
      BY <2>1
    <3>2. QED
      BY <2>1, <3>1
  <2>2. CASE i # n + 1
    <3>1. i \in 0 .. n
      BY <2>2
    <3>2. v[i] = IF i = 0 THEN 1 ELSE b * v[i - 1]
      BY <1>1, <3>1 DEF IsPowers
    <3>3. i # 0 => i - 1 \in 0 .. n + 1 /\ i - 1 # n + 1
      BY <3>1
    <3>4. QED
      BY <2>2, <3>2, <3>3
  <2>3. QED
    BY <2>1, <2>2
<1>3. w = [i \in 0 .. n + 1 |-> IF i = 0 THEN 1 ELSE b * w[i - 1]]
  BY <1>2
<1>4. IsPowers(w, b, n + 1)
  BY <1>3 DEF IsPowers
<1>5. QED
  BY <1>4 DEF PowersExist

(* so they exist up to every exponent. *)
LEMMA PowersDefined ==
    ASSUME NEW b, NEW n \in Nat
    PROVE  PowersExist(b, n)
<1> DEFINE G == {i \in Nat : PowersExist(b, i)}
<1>1. 0 \in G
  <2> DEFINE v == [i \in 0 .. 0 |-> 1]
  <2>1. \A i \in 0 .. 0 : i = 0
    OBVIOUS
  <2>2. v = [i \in 0 .. 0 |-> IF i = 0 THEN 1 ELSE b * v[i - 1]]
    BY <2>1
  <2>3. IsPowers(v, b, 0)
    BY <2>2 DEF IsPowers
  <2>4. QED
    BY <2>3 DEF PowersExist
<1>2. \A i \in 0 .. n - 1 : i \in G => i + 1 \in G
  BY PowersGrow
<1> HIDE DEF G
<1>3. \A i \in 0 .. n : i \in G
  BY <1>1, <1>2, Climb
<1>4. n \in G
  BY <1>3
<1>5. QED
  BY <1>4 DEF G

(* A solution starts at one, and every entry is the base times the last.    *)
LEMMA PowerSteps ==
    ASSUME NEW g, NEW b \in Nat \ {0}, NEW m \in Nat, IsPowers(g, b, m)
    PROVE  /\ g[0] = 1
           /\ \A n \in 0 .. m - 1 : g[n + 1] = b * g[n]
           /\ \A n \in 0 .. m : g[n] \in Nat \ {0}
<1>0. \A n \in 0 .. m : g[n] = IF n = 0 THEN 1 ELSE b * g[n - 1]
  BY DEF IsPowers
<1>1. g[0] = 1
  BY <1>0
<1>2. ASSUME NEW n \in 0 .. m - 1 PROVE g[n + 1] = b * g[n]
  <2>1. n + 1 \in 0 .. m /\ n + 1 # 0 /\ (n + 1) - 1 = n
    OBVIOUS
  <2>2. QED
    BY <1>0, <2>1
<1> DEFINE G == {n \in 0 .. m : g[n] \in Nat \ {0}}
<1>3. 0 \in G
  BY <1>1
<1>4. ASSUME NEW n \in 0 .. m - 1, n \in G PROVE n + 1 \in G
  <2> DEFINE x == g[n]
  <2>1. x \in Nat \ {0} /\ g[n + 1] = b * x
    BY <1>2, <1>4
  <2> HIDE DEF x
  <2>2. b * x \in Nat \ {0}
    BY <2>1, Z3
  <2>3. QED
    BY <2>1, <2>2
<1>5. \A n \in 0 .. m : n \in G
  <2> HIDE DEF G
  <2>1. QED
    BY <1>3, <1>4, Climb
<1>6. QED
  BY <1>1, <1>2, <1>5

(* A power of a sum of exponents is a product of powers. *)
LEMMA PowerOfSum ==
    ASSUME NEW g, NEW b \in Nat \ {0}, NEW m \in Nat, IsPowers(g, b, m),
           NEW i \in Nat, NEW k \in Nat, i + k <= m
    PROVE  g[i + k] = g[i] * g[k]
<1> DEFINE G == {n \in 0 .. k : g[i + n] = g[i] * g[n]}
           p == g[i]
<1>0. /\ g[0] = 1 /\ \A n \in 0 .. m - 1 : g[n + 1] = b * g[n]
      /\ \A n \in 0 .. m : g[n] \in Nat \ {0}
  BY PowerSteps
<1>1. 0 \in G
  <2>1. i + 0 = i /\ p \in Int
    BY <1>0
  <2>2. QED
    BY <1>0, <2>1
<1>2. ASSUME NEW n \in 0 .. k - 1, n \in G PROVE n + 1 \in G
  <2> DEFINE x == g[n]
             y == g[i + n]
  <2>1. x \in Int /\ p \in Int /\ y = p * x
    BY <1>0, <1>2
  <2>2. g[n + 1] = b * x
    BY <1>0
  <2>3. g[i + (n + 1)] = b * y
    <3>1. i + n \in 0 .. m - 1 /\ i + (n + 1) = (i + n) + 1
      OBVIOUS
    <3>2. QED
      BY <1>0, <3>1
  <2> HIDE DEF x, y, p
  <2>4. b * (p * x) = p * (b * x)
    BY <2>1, Z3
  <2>5. g[i + (n + 1)] = p * g[n + 1]
    BY <2>1, <2>2, <2>3, <2>4
  <2>6. n + 1 \in 0 .. k
    OBVIOUS
  <2>7. QED
    BY <2>5, <2>6 DEF p
<1> HIDE DEF G
<1>3. \A n \in 0 .. k : n \in G
  BY <1>1, <1>2, Climb
<1>4. k \in G
  BY <1>3
<1>5. QED
  BY <1>4 DEF G

(* Dividing by t and then by b divides by their product; the remainder is the
   next digit. *)
LEMMA DivideTwice ==
    ASSUME NEW n \in Nat, NEW t \in Nat \ {0}, NEW b \in Nat \ {0}
    PROVE  /\ n \div t \in Nat /\ (n \div t) % b \in 0 .. b - 1
           /\ n \div t = b * (n \div (b * t)) + ((n \div t) % b)
<1> DEFINE d == n \div t
           e == n % t
<1>1. d \in Int /\ e \in Int /\ n = t * d + e /\ 0 <= e /\ e < t
  BY Division
<1> HIDE DEF d, e
<1>2. 0 <= d
  <2>1. (-1) * t < d * t
    BY <1>1, Z3
  <2>2. -1 < d
    BY <1>1, <2>1, ProductStrict
  <2>3. QED
    BY <1>1, <2>2
<1> DEFINE f == d \div b
           c == d % b
<1>3. f \in Int /\ c \in Int /\ d = b * f + c /\ 0 <= c /\ c < b
  BY <1>1, Division
<1> HIDE DEF f, c
<1> DEFINE rest == c * t + e
           m == b * t
<1>4. m \in Nat \ {0}
  BY Z3
<1>5. rest \in 0 .. m - 1
  <2>1. rest \in Nat
    <3>1. c * t \in Nat
      BY <1>3, Z3
    <3>2. QED
      BY <1>1, <3>1
  <2>2. (c + 1) * t <= b * t
    <3>1. c + 1 \in Nat /\ c + 1 <= b
      BY <1>3
    <3>2. QED
      BY <3>1, ProductMonotone
  <2>3. (c + 1) * t = c * t + t
    BY <1>3, Z3
  <2> DEFINE ct == c * t
  <2>4. ct \in Int /\ ct + t <= m /\ rest = ct + e
    BY <1>3, <2>2, <2>3
  <2> HIDE DEF ct, m, rest
  <2>5. QED
    BY <1>1, <1>4, <2>1, <2>4
<1>6. n = f * m + rest
  <2>1. t * d = f * (b * t) + c * t
    BY <1>1, <1>3, Z3
  <2> DEFINE x == t * d
             y == f * (b * t)
             z == c * t
  <2>2. x \in Int /\ y \in Int /\ z \in Int /\ x = y + z /\ n = x + e
    BY <1>1, <1>3, <2>1
  <2> HIDE DEF x, y, z
  <2>3. n = y + (z + e)
    BY <1>1, <2>2
  <2>4. QED
    BY <2>3 DEF y, z
<1> HIDE DEF m, rest
<1>7. n \div m = f
  BY <1>3, <1>4, <1>5, <1>6, UniqueDivision
<1>8. QED
  BY <1>1, <1>2, <1>3, <1>7 DEF d, c, m

(* The remainder by a product, digit by digit. *)
LEMMA RemainderTwice ==
    ASSUME NEW n \in Nat, NEW t \in Nat \ {0}, NEW b \in Nat \ {0}
    PROVE  n % (b * t) = (n % t) + ((n \div t) % b) * t
<1> DEFINE d == n \div t
           c == d % b
           m == b * t
           f == n \div m
           x == n % t
           y == n % m
<1>1. d \in Nat /\ c \in 0 .. b - 1 /\ d = b * f + c
  BY DivideTwice
<1>2. m \in Nat \ {0}
  BY Z3
<1>3. x \in Int /\ n = t * d + x
  BY Division
<1>3a. m = b * t /\ c \in Int
  BY <1>1
<1> HIDE DEF m
<1>4. f \in Int /\ y \in Int /\ n = m * f + y
  BY <1>2, Division
<1>5. m = b * t /\ c \in Int
  BY <1>3a
<1> HIDE DEF d, c, m, f, x, y
<1>6. t * d = m * f + c * t
  BY <1>1, <1>4, <1>5, Z3
<1>7. m * f + y = (m * f + c * t) + x
  BY <1>3, <1>4, <1>6
<1> DEFINE u == m * f
           v == c * t
<1>8. u \in Int /\ v \in Int /\ u + y = (u + v) + x
  BY <1>2, <1>4, <1>5, <1>7
<1> HIDE DEF u, v
<1>9. y = x + v
  BY <1>3, <1>4, <1>8
<1>10. QED
  BY <1>9 DEF y, x, v, c, d, m

LEMMA SizeFacts ==
    /\ Bits \in Nat /\ Limb \in Nat /\ Limbs \in Nat /\ Limb * Limbs \in Nat
    /\ Bits + Limb * Limbs \in Nat /\ N <= TwoTo[Bits] /\ P <= TwoTo[Limb * Limbs]
<1>1. Bits \in Nat /\ Limb \in Nat /\ Limbs \in Nat /\ N <= TwoTo[Bits] /\ P <= TwoTo[Limb * Limbs]
  BY CurveAssumption
<1>2. Limb * Limbs \in Nat
  BY <1>1, Z3
<1>3. QED
  BY <1>1, <1>2

LEMMA TwoToIsPowers == IsPowers(TwoTo, 2, Bits + Limb * Limbs)
<1>1. Bits + Limb * Limbs \in Nat
  BY SizeFacts
<1>2. QED
  BY <1>1, PowersDefined DEF TwoTo, IsPowers, PowersExist

LEMMA TwoToFacts ==
    /\ TwoTo[0] = 1
    /\ \A n \in 0 .. (Bits + Limb * Limbs) - 1 : TwoTo[n + 1] = 2 * TwoTo[n]
    /\ \A n \in 0 .. Bits + Limb * Limbs : TwoTo[n] \in Nat \ {0}
<1> DEFINE m == Bits + Limb * Limbs
<1>1. m \in Nat /\ 2 \in Nat \ {0}
  BY SizeFacts
<1>2. IsPowers(TwoTo, 2, m)
  BY TwoToIsPowers
<1> HIDE DEF m
<1>3. /\ TwoTo[0] = 1
      /\ \A n \in 0 .. m - 1 : TwoTo[n + 1] = 2 * TwoTo[n]
      /\ \A n \in 0 .. m : TwoTo[n] \in Nat \ {0}
  BY <1>1, <1>2, PowerSteps
<1>4. QED
  BY <1>3 DEF m

(* The powers that a ladder uses. *)
LEMMA LadderPowers ==
    /\ TwoTo[0] = 1
    /\ \A n \in 0 .. Bits - 1 : TwoTo[n + 1] = 2 * TwoTo[n]
    /\ \A n \in 0 .. Bits : TwoTo[n] \in Nat \ {0}
<1> DEFINE l == Limb * Limbs
<1>1. Bits \in Nat /\ l \in Nat
  BY SizeFacts
<1>2. /\ TwoTo[0] = 1
      /\ \A n \in 0 .. (Bits + l) - 1 : TwoTo[n + 1] = 2 * TwoTo[n]
      /\ \A n \in 0 .. Bits + l : TwoTo[n] \in Nat \ {0}
  BY TwoToFacts
<1> HIDE DEF l
<1>3. QED
  BY <1>1, <1>2

(* What a ladder has walked when some bits are left. *)
Walked(u, left) == TwoTo[Bits - left] + u \div TwoTo[left]

LEMMA WalkedBegin ==
    ASSUME NEW u \in 0 .. N - 1
    PROVE  Walked(u, Bits) = 1
<1> DEFINE t == TwoTo[Bits]
<1>1. Bits \in Nat /\ N <= t /\ N \in Nat
  BY SizeFacts, PrimesFacts
<1>2. t \in Nat \ {0} /\ TwoTo[0] = 1
  BY <1>1, LadderPowers
<1>3. Walked(u, Bits) = TwoTo[Bits - Bits] + u \div t
  BY DEF Walked
<1> HIDE DEF t
<1>4. u \in 0 .. t - 1 /\ 0 \in Int
  BY <1>1, <1>2
<1>5. (0 * t + u) \div t = 0
  BY <1>2, <1>4, UniqueDivision
<1>6. 0 * t + u = u /\ Bits - Bits = 0
  BY <1>1, <1>2
<1>7. QED
  BY <1>2, <1>3, <1>5, <1>6

LEMMA WalkedEnd ==
    ASSUME NEW u \in Nat
    PROVE  Walked(u, 0) = TwoTo[Bits] + u
<1>1. Bits \in Nat /\ TwoTo[0] = 1
  BY SizeFacts, LadderPowers
<1>2. u \div 1 = u
  <2>1. 0 \in 0 .. 1 - 1 /\ 1 \in Nat \ {0} /\ u \in Int
    OBVIOUS
  <2>2. (u * 1 + 0) \div 1 = u
    BY <2>1, UniqueDivision
  <2>3. u * 1 + 0 = u
    OBVIOUS
  <2>4. QED
    BY <2>2, <2>3
<1>3. Bits - 0 = Bits
  BY <1>1
<1>4. QED
  BY <1>1, <1>2, <1>3 DEF Walked

LEMMA WalkedNat ==
    ASSUME NEW u \in Nat, NEW left \in 0 .. Bits
    PROVE  Walked(u, left) \in Nat
<1> DEFINE s == TwoTo[Bits - left]
           t == TwoTo[left]
<1>1. Bits \in Nat /\ Bits - left \in 0 .. Bits
  BY SizeFacts
<1>2. s \in Nat \ {0} /\ t \in Nat \ {0}
  BY <1>1, LadderPowers
<1>3. Walked(u, left) = s + u \div t
  BY DEF Walked
<1> HIDE DEF s, t
<1>4. u \div t \in Nat
  BY <1>2, DivideTwice
<1>5. QED
  BY <1>2, <1>3, <1>4

LEMMA WalkedStep ==
    ASSUME NEW u \in Nat, NEW left \in 1 .. Bits
    PROVE  /\ Walked(u, left - 1) = Walked(u, left) + Walked(u, left) + ScalarBit(u, left - 1)
           /\ ScalarBit(u, left - 1) \in {0, 1}
<1> DEFINE k == left - 1
           n == Bits - left
           t == TwoTo[k]
           s == TwoTo[n]
           d == u \div t
           c == d % 2
           f == u \div (2 * t)
<1>1. Bits \in Nat /\ left \in Int /\ k \in 0 .. Bits - 1 /\ n \in 0 .. Bits - 1
      /\ k + 1 = left /\ Bits - k = n + 1
  BY SizeFacts
<1>2. TwoTo[left] = 2 * t /\ TwoTo[Bits - k] = 2 * s
  BY <1>1, LadderPowers
<1>3. t \in Nat \ {0} /\ s \in Nat \ {0}
  BY <1>1, LadderPowers
<1>4. Walked(u, left) = s + f /\ Walked(u, left - 1) = 2 * s + d /\ ScalarBit(u, left - 1) = c
  <2>1. Walked(u, left) = TwoTo[n] + u \div TwoTo[left]
    BY DEF Walked
  <2>2. Walked(u, k) = TwoTo[Bits - k] + u \div TwoTo[k]
    BY DEF Walked
  <2>3. ScalarBit(u, k) = (u \div TwoTo[k]) % 2
    BY DEF ScalarBit
  <2>4. QED
    BY <1>2, <2>1, <2>2, <2>3
<1> HIDE DEF k, n, t, s
<1>5. d \in Nat /\ c \in 0 .. 2 - 1 /\ d = 2 * f + c
  <2>1. \A b \in Nat \ {0} : /\ u \div t \in Nat /\ (u \div t) % b \in 0 .. b - 1
                             /\ u \div t = b * (u \div (b * t)) + ((u \div t) % b)
    BY <1>3, DivideTwice
  <2>2. 2 \in Nat \ {0}
    OBVIOUS
  <2>3. QED
    BY <2>1, <2>2, Zenon
<1>6. 2 * t \in Nat \ {0}
  BY <1>3
<1>7. f \in Int
  <2> DEFINE tt == 2 * t
  <2> HIDE DEF tt
  <2>1. u \div tt \in Int
    BY <1>6, Division DEF tt
  <2>2. QED
    BY <2>1 DEF tt
<1> HIDE DEF d, c, f
<1>8. QED
  BY <1>3, <1>4, <1>5, <1>7

(* A doubling and, when the bit is set, an addition keep the accumulator at
   the multiple that has been walked. *)
LEMMA WalkStep ==
    ASSUME NEW u \in Nat, NEW left \in 1 .. Bits, NEW pt \in Points, NEW acc,
           acc = Multiple(Walked(u, left), pt)
    PROVE  (IF ScalarBit(u, left - 1) = 1 THEN AddPoints(AddPoints(acc, acc), pt)
            ELSE AddPoints(acc, acc)) = Multiple(Walked(u, left - 1), pt)
<1> DEFINE w == Walked(u, left)
           c == ScalarBit(u, left - 1)
<1>1. left \in 0 .. Bits /\ left - 1 \in 0 .. Bits
  BY SizeFacts
<1>2. w \in Nat
  BY <1>1, WalkedNat
<1>3. Walked(u, left - 1) = w + w + c /\ c \in {0, 1}
  BY WalkedStep
<1>4. acc = Multiple(w, pt)
  OBVIOUS
<1> HIDE DEF w, c
<1>5. AddPoints(acc, acc) = Multiple(w + w, pt)
  BY <1>2, <1>4, MultipleSum
<1>6. CASE c = 0
  <2>1. w + w + c = w + w
    BY <1>2, <1>6
  <2>2. QED
    BY <1>3, <1>5, <1>6, <2>1 DEF c
<1>7. CASE c = 1
  <2>1. w + w \in Nat
    BY <1>2
  <2>2. Multiple((w + w) + 1, pt) = AddPoints(Multiple(w + w, pt), pt)
    BY <2>1, MultipleStep
  <2>3. w + w + c = (w + w) + 1
    BY <1>2, <1>7
  <2>4. QED
    BY <1>3, <1>5, <1>7, <2>2, <2>3 DEF c
<1>8. QED
  BY <1>3, <1>6, <1>7

(* Bits doublings multiply by 2^Bits. *)
LEMMA DoubledMultiple ==
    ASSUME NEW pt \in Points
    PROVE  Double256(pt) = Multiple(TwoTo[Bits], pt)
<1> DEFINE Doubles(f) == f = [i \in 0 .. Bits |-> IF i = 0 THEN pt ELSE AddPoints(f[i - 1], f[i - 1])]
           w == [i \in 0 .. Bits |-> Multiple(TwoTo[i], pt)]
           v == CHOOSE f : Doubles(f)
<1>0. Bits \in Nat
  BY SizeFacts
<1>1. ASSUME NEW i \in 0 .. Bits
      PROVE  w[i] = IF i = 0 THEN pt ELSE AddPoints(w[i - 1], w[i - 1])
  <2>1. CASE i = 0
    <3>1. TwoTo[i] = 1
      BY <2>1, LadderPowers
    <3>2. w[i] = Multiple(1, pt)
      BY <3>1
    <3>3. QED
      BY <2>1, <3>2, MultipleOne
  <2>2. CASE i # 0
    <3> DEFINE k == i - 1
               t == TwoTo[k]
    <3>1. k \in 0 .. Bits - 1 /\ k \in 0 .. Bits /\ k + 1 = i
      BY <1>0, <2>2
    <3>2. TwoTo[i] = 2 * t /\ t \in Nat
      BY <3>1, LadderPowers
    <3>3. w[i] = Multiple(TwoTo[i], pt) /\ w[k] = Multiple(t, pt)
      BY <3>1
    <3> HIDE DEF t, w
    <3>4. TwoTo[i] = t + t
      BY <3>2
    <3>5. Multiple(t + t, pt) = AddPoints(Multiple(t, pt), Multiple(t, pt))
      BY <3>2, MultipleSum
    <3>6. QED
      BY <2>2, <3>3, <3>4, <3>5
  <2>3. QED
    BY <2>1, <2>2
<1>2. w = [i \in 0 .. Bits |-> IF i = 0 THEN pt ELSE AddPoints(w[i - 1], w[i - 1])]
  BY <1>1
<1>3. Doubles(w)
  BY <1>2
<1>4. Doubles(v)
  <2> HIDE DEF Doubles, w
  <2>1. \E f : Doubles(f)
    BY <1>3
  <2>2. QED
    BY <2>1
<1>5. Double256(pt) = v[Bits]
  BY DEF Double256
<1>6. \A i \in 0 .. Bits : v[i] = IF i = 0 THEN pt ELSE AddPoints(v[i - 1], v[i - 1])
  <2> HIDE DEF v
  <2>1. QED
    BY <1>4
<1>7. w[Bits] = Multiple(TwoTo[Bits], pt)
  BY <1>0
<1> HIDE DEF v, w
<1> DEFINE G == {i \in 0 .. Bits : v[i] = w[i]}
<1>8. 0 \in G
  BY <1>0, <1>1, <1>6
<1>9. ASSUME NEW i \in 0 .. Bits - 1, i \in G PROVE i + 1 \in G
  <2>1. i + 1 \in 0 .. Bits /\ i + 1 # 0 /\ (i + 1) - 1 = i
    BY <1>0
  <2>2. v[i + 1] = AddPoints(v[i], v[i]) /\ w[i + 1] = AddPoints(w[i], w[i])
    BY <1>1, <1>6, <2>1
  <2>3. QED
    BY <1>9, <2>1, <2>2
<1> HIDE DEF G
<1>10. \A i \in 0 .. Bits : i \in G
  BY <1>0, <1>8, <1>9, Climb
<1>11. Bits \in G
  BY <1>0, <1>10
<1>12. QED
  BY <1>5, <1>7, <1>11 DEF G

(* Taking 2^Bits points off the end of a walk leaves the multiple of its
   scalar. *)
LEMMA CorrectedMultiple ==
    ASSUME NEW u \in Nat, NEW pt \in Points
    PROVE  AddPoints(Multiple(Walked(u, 0), pt), Negate(Double256(pt))) = Multiple(u, pt)
<1> DEFINE t == TwoTo[Bits]
           d == Multiple(t, pt)
           m == Multiple(u, pt)
<1>1. t \in Nat
  BY SizeFacts, LadderPowers
<1>2. Walked(u, 0) = t + u /\ Double256(pt) = d
  BY WalkedEnd, DoubledMultiple
<1> HIDE DEF t
<1>3. t + u = u + t
  BY <1>1
<1>4. Multiple(u + t, pt) = AddPoints(m, d) /\ d \in Points /\ m \in Points
  BY <1>1, MultipleSum, MultiplePoint
<1> HIDE DEF m, d
<1>5. Negate(d) \in Points /\ AddPoints(d, Negate(d)) = Infinity
  <2>1. CASE d = Infinity
    <3>1. Negate(d) = Infinity
      BY <2>1 DEF Negate
    <3>2. QED
      BY <2>1, <3>1, InfinityPoint, Neutral
  <2>2. CASE d # Infinity
    <3>1. d \in Affine
      BY <1>4, <2>2, PointCases
    <3>2. QED
      BY <3>1, NegateFacts, AffineFacts
  <2>3. QED
    BY <2>1, <2>2
<1>6. AddPoints(AddPoints(m, d), Negate(d)) = AddPoints(m, AddPoints(d, Negate(d)))
  BY <1>4, <1>5, Associative
<1>7. AddPoints(Multiple(Walked(u, 0), pt), Negate(Double256(pt))) = m
  BY <1>2, <1>3, <1>4, <1>5, <1>6, Neutral
<1>8. QED
  BY <1>7 DEF m
-----------------------------------------------------------------------------
(* What the circuit families say, equation by equation.                    *)

(* The input that generate_witness goes on with. *)
Parsed(in) == /\ in.z \in 0 .. N - 1 /\ in.r \in 1 .. N - 1 /\ in.s \in 1 .. N - 1
              /\ in.q \in Affine

LEMMA ParsedFacts ==
    ASSUME NEW in \in Inputs, ParseVerdict(in) = "ok"
    PROVE  Parsed(in)
<1>0. P \in Nat /\ N \in Nat
  BY PrimesFacts
<1>1. /\ in.z \in Nat /\ in.r \in Nat /\ in.s \in Nat /\ in.q \in Nat \X Nat
  BY InputsAssumption
<1>2. in.q = <<in.q[1], in.q[2]>> /\ in.q[1] \in Nat /\ in.q[2] \in Nat
  BY <1>1
<1>3. /\ ~(in.z >= N) /\ ~(in.r >= N) /\ in.r # 0 /\ ~(in.s >= N) /\ in.s # 0
      /\ ~(in.q[1] >= P) /\ ~(in.q[2] >= P) /\ OnCurve(in.q)
  BY DEF ParseVerdict
<1>4. in.q[1] \in Field /\ in.q[2] \in Field
  BY <1>0, <1>2, <1>3 DEF Field
<1>5. in.q \in Affine
  BY <1>2, <1>3, <1>4 DEF Affine
<1>6. QED
  BY <1>0, <1>1, <1>3, <1>5 DEF Parsed

(* c2 accepts the numbers that were parsed. *)
LEMMA ParsedCanonical ==
    ASSUME Parsed(input)
    PROVE  C2Canonicality
<1>0. P \in Nat \ {0} /\ N \in Nat /\ N < P /\ B \in Nat
  BY PrimesFacts
<1>1. ASSUME NEW a \in 1 .. N - 1 PROVE (a * FieldInverse(a) - 1) % P = 0
  <2>1. a \in Int /\ a \in 0 .. P - 1 /\ a # 0 /\ 1 \in Int
    BY <1>0
  <2>2. a % P # 0
    BY <1>0, <2>1, SmallRemainder
  <2> DEFINE i == FieldInverse(a)
  <2>3. i \in Int /\ Same(a * i, 1, P)
    BY <2>1, <2>2, FieldInverseFacts
  <2> HIDE DEF i
  <2>4. a * i \in Int
    BY <2>1, <2>3
  <2>5. (a * i - 1) % P = 0
    BY <1>0, <2>1, <2>3, <2>4, SameDifference
  <2>6. QED
    BY <2>5 DEF i
<1>2. /\ (input.r * C2Input.rinv - 1) % P = 0
      /\ (input.s * C2Input.sinv - 1) % P = 0
  <2>1. C2Input.rinv = FieldInverse(input.r) /\ C2Input.sinv = FieldInverse(input.s)
    BY DEF C2Input
  <2>2. input.r \in 1 .. N - 1 /\ input.s \in 1 .. N - 1
    BY DEF Parsed
  <2>3. QED
    BY <1>1, <2>1, <2>2
<1>3. (input.q[2] * input.q[2] - input.q[1] * C2Input.qx2 + 3 * input.q[1] - B) % P = 0
  <2> DEFINE x == input.q[1]
             y == input.q[2]
             w == (x * x) % P
             c == x * x * x
             e == x * w
             f == y * y
  <2>1. x \in Int /\ y \in Int /\ OnCurve(input.q)
    BY AffineFacts DEF Parsed
  <2>2. f % P = (c - 3 * x + B) % P
    BY <2>1 DEF OnCurve
  <2>3. C2Input.qx2 = w
    BY DEF C2Input
  <2>4. w \in Int /\ Same(w, x * x, P)
    <3>1. x * x \in Int
      BY <2>1
    <3>2. QED
      BY <1>0, <3>1, SameRemainder
  <2> HIDE DEF x, y, w
  <2>5. c \in Int /\ e \in Int /\ f \in Int
    BY <2>1, <2>4
  <2>6. Same(e, c, P)
    <3>1. Same(x * w, x * (x * x), P)
      <4>1. Same(x, x, P) /\ x * x \in Int
        BY <1>0, <2>1, SameRefl
      <4>2. QED
        BY <1>0, <2>1, <2>4, <4>1, SameProduct
    <3>2. x * (x * x) = c
      BY <2>1, Z3
    <3>3. QED
      BY <3>1, <3>2
  <2> HIDE DEF c, e, f
  <2>7. c - 3 * x + B \in Int
    BY <1>0, <2>1, <2>5
  <2>8. Same(f, c - 3 * x + B, P)
    BY <1>0, <2>2, <2>5, <2>7, SameIff
  <2>9. Same(f - e, (c - 3 * x + B) - c, P) /\ f - e \in Int
    BY <1>0, <2>5, <2>6, <2>7, <2>8, SameSum
  <2>10. (c - 3 * x + B) - c = B - 3 * x /\ B - 3 * x \in Int
    BY <1>0, <2>1, <2>5
  <2>11. Same(f - e, B - 3 * x, P)
    BY <2>9, <2>10
  <2>12. ((f - e) - (B - 3 * x)) % P = 0
    BY <1>0, <2>9, <2>10, <2>11, SameDifference
  <2>13. (f - e) - (B - 3 * x) = f - e + 3 * x - B
    BY <1>0, <2>1, <2>5
  <2>14. QED
    BY <2>3, <2>12, <2>13 DEF f, e, x, y, w
<1>4. QED
  BY <1>2, <1>3 DEF C2Canonicality

(* A quotient and a remainder by N settle a row of c3. *)
LEMMA DivisionRow ==
    ASSUME NEW a \in Int
    PROVE  (a - N * (a \div N) - (a % N)) % P = 0
<1>0. P \in Nat \ {0} /\ N \in Nat \ {0}
  BY PrimesFacts
<1> DEFINE d == a \div N
           e == a % N
           x == N * d
<1>1. d \in Int /\ e \in Int /\ a = N * d + e
  BY <1>0, Division
<1> HIDE DEF d, e
<1>2. x \in Int /\ a = x + e
  BY <1>0, <1>1
<1> HIDE DEF x
<1>3. a - x - e = 0
  BY <1>1, <1>2
<1>4. 0 % P = 0
  <2>1. 0 \in 0 .. P - 1
    BY <1>0
  <2>2. QED
    BY <1>0, <2>1, SmallRemainder
<1>5. (a - x - e) % P = 0
  BY <1>3, <1>4
<1>6. QED
  BY <1>5 DEF x, d, e

(* The limbs of a number below P are worth the number. *)
IsLimbSums(f, x) ==
    f = [k \in 0 .. Limbs |-> IF k = 0 THEN 0 ELSE f[k - 1] + x[k] * TwoTo[Limb * (k - 1)]]

LEMMA LimbPlaces ==
    /\ TwoTo[Limb] \in Nat \ {0}
    /\ \A k \in 0 .. Limbs : TwoTo[Limb * k] \in Nat \ {0}
    /\ \A k \in 1 .. Limbs : TwoTo[Limb * k] = TwoTo[Limb] * TwoTo[Limb * (k - 1)]
    /\ TwoTo[Limb * 0] = 1
<1> DEFINE m == Bits + Limb * Limbs
<1>0. Bits \in Nat /\ Limb \in Nat /\ Limbs \in Nat /\ m \in Nat /\ 2 \in Nat \ {0}
  BY SizeFacts
<1>1. IsPowers(TwoTo, 2, m)
  BY TwoToIsPowers
<1>2. TwoTo[0] = 1 /\ \A n \in 0 .. m : TwoTo[n] \in Nat \ {0}
  BY TwoToFacts
<1>3. ASSUME NEW k \in 0 .. Limbs PROVE Limb * k \in 0 .. m
  <2>1. Limb * k <= Limb * Limbs /\ Limb * k \in Nat /\ Limb * Limbs \in Nat
    <3>1. k \in Nat /\ k <= Limbs
      BY <1>0
    <3>2. k * Limb <= Limbs * Limb
      BY <1>0, <3>1, ProductMonotone
    <3>3. k * Limb = Limb * k /\ Limbs * Limb = Limb * Limbs /\ Limb * k \in Nat /\ Limb * Limbs \in Nat
      BY <1>0, <3>1, Z3
    <3>4. QED
      BY <3>2, <3>3
  <2> DEFINE x == Limb * k
             y == Limb * Limbs
  <2>2. x \in Nat /\ y \in Nat /\ x <= y /\ m = Bits + y
    BY <2>1
  <2> HIDE DEF x, y, m
  <2>3. x \in 0 .. m
    BY <1>0, <2>2
  <2>4. QED
    BY <2>3 DEF x
<1>4. ASSUME NEW k \in 1 .. Limbs
      PROVE  TwoTo[Limb * k] = TwoTo[Limb] * TwoTo[Limb * (k - 1)]
  <2> DEFINE x == Limb * (k - 1)
  <2>1. k \in 0 .. Limbs /\ k - 1 \in 0 .. Limbs
    BY <1>0
  <2>2. Limb + x = Limb * k
    BY <1>0, Z3
  <2>3. x \in Nat /\ Limb * k \in 0 .. m
    BY <1>3, <2>1
  <2> HIDE DEF x, m
  <2>4. Limb + x <= m
    BY <1>0, <2>2, <2>3
  <2>5. TwoTo[Limb + x] = TwoTo[Limb] * TwoTo[x]
    BY <1>0, <1>1, <2>3, <2>4, PowerOfSum
  <2>6. QED
    BY <2>2, <2>5 DEF x
<1>5. TwoTo[Limb] \in Nat \ {0}
  <2> DEFINE y == Limb * Limbs
  <2>1. CASE Limbs = 0
    <3>1. P <= TwoTo[Limb * Limbs]
      BY SizeFacts
    <3>2. 1 < P /\ P \in Nat
      BY PrimesFacts
    <3>3. Limb * Limbs = 0
      BY <1>0, <2>1
    <3>4. QED
      BY <1>2, <3>1, <3>2, <3>3
  <2>2. CASE Limbs # 0
    <3>1. 1 \in 0 .. Limbs /\ Limb * 1 = Limb
      BY <1>0, <2>2
    <3>2. Limb \in 0 .. m
      BY <1>3, <3>1
    <3>3. QED
      BY <1>2, <3>2
  <2>3. QED
    BY <2>1, <2>2
<1>6. Limb * 0 = 0
  BY <1>0
<1>7. \A k \in 0 .. Limbs : TwoTo[Limb * k] \in Nat \ {0}
  BY <1>2, <1>3
<1>8. QED
  BY <1>2, <1>4, <1>5, <1>6, <1>7

LEMMA LimbsOfValue ==
    ASSUME NEW v \in 0 .. P - 1
    PROVE  LimbValue(Limbs13(v)) = v
<1> DEFINE x == Limbs13(v)
           w == [k \in 0 .. Limbs |-> v % TwoTo[Limb * k]]
           f == CHOOSE g : IsLimbSums(g, x)
<1>0. Limbs \in Nat /\ P \in Nat \ {0} /\ P <= TwoTo[Limb * Limbs] /\ v \in Nat
  BY SizeFacts, PrimesFacts
<1>1. ASSUME NEW k \in 0 .. Limbs
      PROVE  w[k] = IF k = 0 THEN 0 ELSE w[k - 1] + x[k] * TwoTo[Limb * (k - 1)]
  <2>1. CASE k = 0
    <3>1. w[k] = v % TwoTo[Limb * 0] /\ TwoTo[Limb * 0] = 1
      BY <2>1, LimbPlaces
    <3>2. v % 1 = 0
      OBVIOUS
    <3>3. QED
      BY <2>1, <3>1, <3>2
  <2>2. CASE k # 0
    <3> DEFINE t == TwoTo[Limb * (k - 1)]
               b == TwoTo[Limb]
    <3>1. k \in 1 .. Limbs /\ k - 1 \in 0 .. Limbs
      BY <1>0, <2>2
    <3>2. t \in Nat \ {0} /\ b \in Nat \ {0} /\ TwoTo[Limb * k] = b * t
      BY <3>1, LimbPlaces
    <3>3. w[k] = v % TwoTo[Limb * k] /\ w[k - 1] = v % t
      BY <3>1
    <3>4. x[k] = (v \div t) % b
      BY <3>1 DEF Limbs13
    <3> HIDE DEF t, b, w, x
    <3>5. v % (b * t) = (v % t) + ((v \div t) % b) * t
      BY <1>0, <3>2, RemainderTwice
    <3>6. w[k] = w[k - 1] + x[k] * t
      BY <3>2, <3>3, <3>4, <3>5
    <3>7. QED
      BY <2>2, <3>6 DEF t
  <2>3. QED
    BY <2>1, <2>2
<1> HIDE DEF x
<1>2. w = [k \in 0 .. Limbs |-> IF k = 0 THEN 0 ELSE w[k - 1] + x[k] * TwoTo[Limb * (k - 1)]]
  BY <1>1
<1>3. IsLimbSums(w, x)
  BY <1>2 DEF IsLimbSums
<1>4. IsLimbSums(f, x)
  <2> HIDE DEF w
  <2>1. \E g : IsLimbSums(g, x)
    BY <1>3
  <2>2. QED
    BY <2>1
<1>5. LimbValue(x) = f[Limbs]
  BY DEF LimbValue, IsLimbSums
<1>6. \A k \in 0 .. Limbs : f[k] = IF k = 0 THEN 0 ELSE f[k - 1] + x[k] * TwoTo[Limb * (k - 1)]
  <2> HIDE DEF f
  <2>1. QED
    BY <1>4 DEF IsLimbSums
<1>7. w[Limbs] = v
  <2>1. w[Limbs] = v % TwoTo[Limb * Limbs]
    BY <1>0
  <2> DEFINE t == TwoTo[Limb * Limbs]
  <2>2. t \in Nat \ {0}
    BY <1>0, LimbPlaces
  <2>3. P <= t
    BY <1>0
  <2> HIDE DEF t
  <2>4. v \in 0 .. t - 1
    BY <1>0, <2>2, <2>3
  <2>5. v % t = v
    BY <2>2, <2>4, SmallRemainder
  <2>6. QED
    BY <2>1, <2>5 DEF t
<1> HIDE DEF w, f
<1> DEFINE G == {k \in 0 .. Limbs : f[k] = w[k]}
<1>8. 0 \in G
  BY <1>0, <1>1, <1>6
<1>9. ASSUME NEW k \in 0 .. Limbs - 1, k \in G PROVE k + 1 \in G
  <2>1. k + 1 \in 0 .. Limbs /\ k + 1 # 0 /\ (k + 1) - 1 = k
    BY <1>0
  <2> DEFINE t == x[k + 1] * TwoTo[Limb * k]
  <2>2. f[k + 1] = f[k] + t /\ w[k + 1] = w[k] + t
    BY <1>1, <1>6, <2>1
  <2> HIDE DEF t
  <2>3. QED
    BY <1>9, <2>1, <2>2
<1> HIDE DEF G
<1>10. \A k \in 0 .. Limbs : k \in G
  BY <1>0, <1>8, <1>9, Climb
<1>11. Limbs \in G
  BY <1>0, <1>10
<1>12. QED
  BY <1>5, <1>7, <1>11 DEF G, x
-----------------------------------------------------------------------------
(* A witness while it is generated, part by part.                          *)
ScalarsMade ==
    /\ wit.limbs = [i \in 1 .. 5 |-> Limbs13(InputValues(input)[i])]
    /\ wit.sinv = ScalarInverse(input.s)
    /\ wit.u = ScalarU(input)
    /\ wit.quotients = <<(input.s * wit.sinv) \div N, (input.z * wit.sinv) \div N,
                         (input.r * wit.sinv) \div N>>
    /\ wit.flags = <<0, 0, 0>>

Part(in, i) == IF i = 1 THEN Multiple(ScalarU(in)[1], Gen) ELSE Multiple(ScalarU(in)[2], in.q)
Sum(in) == AddPoints(Part(in, 1), Part(in, 2))

FinalMade ==
    /\ Part(input, 1) \in Affine /\ Part(input, 2) \in Affine
    /\ wit.final = Sum(input) /\ wit.final \in Affine
    /\ wit.reduction = ReduceX(wit.final[1])

(* The first n rounds of a walk over u from a base. *)
WalkedOver(walk, u, base, n) ==
    /\ walk \in Seq(Affine) /\ Len(walk) = n
    /\ \A j \in 1 .. n : walk[j] = Multiple(Walked(u, Bits - j), base)

WalksMade ==
    /\ WalkedOver(wit.g, ScalarU(input)[1], Gen, Bits)
    /\ WalkedOver(wit.q, ScalarU(input)[2], input.q, Bits)

EndpointsMade ==
    /\ wit.corrected = <<Part(input, 1), Part(input, 2)>>
    /\ Part(input, 1)[1] # Part(input, 2)[1]
    /\ wit.denominv = FieldInverse((Part(input, 2)[1] - Part(input, 1)[1]) % P)

Generated == ScalarsMade /\ FinalMade /\ WalksMade /\ EndpointsMade

LEMMA ScalarUFacts ==
    ASSUME NEW in, Parsed(in)
    PROVE  /\ ScalarU(in) = <<(in.z * ScalarInverse(in.s)) % N, (in.r * ScalarInverse(in.s)) % N>>
           /\ ScalarU(in)[1] \in 0 .. N - 1 /\ ScalarU(in)[2] \in 0 .. N - 1
           /\ ScalarU(in)[1] \in Nat /\ ScalarU(in)[2] \in Nat
           /\ ScalarU(in)[2] # 0
<1>0. N \in Nat \ {0} /\ IsPrime(N)
  BY PrimesFacts
<1> DEFINE w == ScalarInverse(in.s)
<1>1. in.z \in Int /\ in.r \in 1 .. N - 1 /\ in.s \in 1 .. N - 1
  BY <1>0 DEF Parsed
<1>2. w \in 1 .. N - 1 /\ w \in Int
  BY <1>1, ScalarInverseFacts
<1>3. ScalarU(in) = <<(in.z * w) % N, (in.r * w) % N>>
  BY DEF ScalarU
<1> HIDE DEF w
<1>4. in.z * w \in Int /\ in.r * w \in Int /\ in.r \in Int
  BY <1>1, <1>2
<1>5. (in.z * w) % N \in 0 .. N - 1 /\ (in.r * w) % N \in 0 .. N - 1
  BY <1>0, <1>4, SameRemainder
<1>6. (in.r * w) % N # 0
  <2>1. in.r % N = in.r /\ w % N = w
    <3>1. in.r \in 0 .. N - 1 /\ w \in 0 .. N - 1
      BY <1>0, <1>1, <1>2
    <3>2. QED
      BY <1>0, <3>1, SmallRemainder
  <2>2. in.r % N # 0 /\ w % N # 0
    BY <1>1, <1>2, <2>1
  <2>3. QED
    BY <1>0, <1>2, <1>4, <2>2, NoZeroDivisors
<1>7. ScalarU(in)[1] = (in.z * w) % N /\ ScalarU(in)[2] = (in.r * w) % N
  BY <1>3
<1>8. ScalarU(in)[1] \in 0 .. N - 1 /\ ScalarU(in)[2] \in 0 .. N - 1 /\ ScalarU(in)[2] # 0
  BY <1>5, <1>6, <1>7
<1>9. QED
  BY <1>0, <1>3, <1>8 DEF w

LEMMA GenFacts == Gen \in Affine /\ Gen \in Points
  BY GroupAssumption, AffineFacts

LEMMA PartPoints ==
    ASSUME NEW in, Parsed(in)
    PROVE  Part(in, 1) \in Points /\ Part(in, 2) \in Points
<1>1. in.q \in Points
  BY AffineFacts DEF Parsed
<1>2. ScalarU(in)[1] \in Nat /\ ScalarU(in)[2] \in Nat
  BY ScalarUFacts
<1>3. Part(in, 1) = Multiple(ScalarU(in)[1], Gen) /\ Part(in, 2) = Multiple(ScalarU(in)[2], in.q)
  BY DEF Part
<1>4. QED
  BY <1>1, <1>2, <1>3, GenFacts, MultiplePoint

(* c1 and c3 accept what generate_witness writes. *)
LEMMA GeneratedLimbs ==
    ASSUME ScalarsMade, Parsed(input)
    PROVE  C1InputLimbs
<1>0. P \in Nat \ {0} /\ N < P /\ N \in Nat
  BY PrimesFacts
<1>1. ASSUME NEW i \in 1 .. 5
      PROVE  LimbValue(wit.limbs[i]) % P = InputValues(input)[i]
  <2> DEFINE v == InputValues(input)[i]
  <2>1. v \in 0 .. P - 1
    <3>1. /\ input.z \in 0 .. P - 1 /\ input.r \in 0 .. P - 1 /\ input.s \in 0 .. P - 1
          /\ input.q[1] \in 0 .. P - 1 /\ input.q[2] \in 0 .. P - 1
      BY <1>0, AffineFacts DEF Parsed
    <3>2. InputValues(input) = <<input.z, input.r, input.s, input.q[1], input.q[2]>>
      BY DEF InputValues
    <3>3. i \in {1, 2, 3, 4, 5}
      OBVIOUS
    <3>4. QED
      BY <3>1, <3>2, <3>3
  <2>2. wit.limbs[i] = Limbs13(v)
    BY DEF ScalarsMade
  <2> HIDE DEF v
  <2>3. LimbValue(wit.limbs[i]) = v
    BY <2>1, <2>2, LimbsOfValue
  <2>4. v % P = v
    BY <1>0, <2>1, SmallRemainder
  <2>5. QED
    BY <2>3, <2>4 DEF v
<1>2. QED
  BY <1>1 DEF C1InputLimbs

LEMMA GeneratedScalars ==
    ASSUME ScalarsMade, Parsed(input)
    PROVE  C3ScalarSetup
<1> DEFINE w == ScalarInverse(input.s)
           a == input.s * w
           b == input.z * w
           c == input.r * w
<1>1. input.z \in Int /\ input.r \in Int /\ input.s \in 1 .. N - 1 /\ input.s \in Int
  BY PrimesFacts DEF Parsed
<1>2. w \in Int /\ a % N = 1
  BY <1>1, ScalarInverseFacts
<1>3. wit.sinv = w /\ wit.u = <<b % N, c % N>> /\ wit.quotients = <<a \div N, b \div N, c \div N>>
  BY DEF ScalarsMade, ScalarU
<1> HIDE DEF w
<1>4. a \in Int /\ b \in Int /\ c \in Int
  BY <1>1, <1>2
<1>5. /\ input.s * wit.sinv = a /\ input.z * wit.sinv = b /\ input.r * wit.sinv = c
      /\ wit.quotients[1] = a \div N /\ wit.quotients[2] = b \div N /\ wit.quotients[3] = c \div N
      /\ wit.u[1] = b % N /\ wit.u[2] = c % N
  BY <1>3
<1> HIDE DEF a, b, c
<1>6. /\ (a - N * (a \div N) - (a % N)) % P = 0
      /\ (b - N * (b \div N) - (b % N)) % P = 0
      /\ (c - N * (c \div N) - (c % N)) % P = 0
  BY <1>4, DivisionRow
<1>7. (input.s * wit.sinv - N * wit.quotients[1] - 1) % P = 0
  BY <1>2, <1>5, <1>6
<1>8. (input.z * wit.sinv - N * wit.quotients[2] - wit.u[1]) % P = 0
  BY <1>5, <1>6
<1>9. (input.r * wit.sinv - N * wit.quotients[3] - wit.u[2]) % P = 0
  BY <1>5, <1>6
<1>10. QED
  BY <1>7, <1>8, <1>9 DEF C3ScalarSetup

(* c11 says that the inverse is one and that the final point is the sum. *)
LEMMA FinalAddition ==
    ASSUME wit.corrected[1] \in Pairs, wit.corrected[2] \in Pairs, wit.final \in Pairs,
           wit.denominv \in Int
    PROVE  C11FinalAdd <=>
              /\ Same((wit.corrected[2][1] - wit.corrected[1][1]) * wit.denominv, 1, P)
              /\ wit.corrected[1][1] # wit.corrected[2][1]
              /\ wit.final = AddPoints(wit.corrected[1], wit.corrected[2])
<1>0. P \in Nat \ {0} /\ 1 < P
  BY PrimesFacts
<1> DEFINE a == wit.corrected[1]
           b == wit.corrected[2]
           r == wit.final
           v == wit.denominv
           a1 == a[1]
           a2 == a[2]
           b1 == b[1]
           b2 == b[2]
           r1 == r[1]
           r2 == r[2]
           d == b1 - a1
           e == b2 - a2
           l == (e * v) % P
           Eq1 == (d * v - 1) % P = 0
           Eq2 == (l * d - b2 + a2) % P = 0
           Eq3 == (l * l - a1 - b1 - r1) % P = 0
           Eq4 == (r2 + a2 - l * (a1 - r1)) % P = 0
<1>1. C11FinalAdd <=> Eq1 /\ Eq2 /\ Eq3 /\ Eq4
  <2>1. /\ C11Input.a = a /\ C11Input.b = b /\ C11Input.r = r /\ C11Input.denominv = v
        /\ C11Input.lambda = l
    BY DEF C11Input
  <2>2. QED
    BY <2>1 DEF C11FinalAdd
<1>2. /\ a1 \in Int /\ a2 \in Int /\ b1 \in Int /\ b2 \in Int /\ r1 \in Int /\ r2 \in Int
      /\ a1 \in 0 .. P - 1 /\ b1 \in 0 .. P - 1 /\ v \in Int
  BY PairFacts
<1>3. ASSUME NEW k \in Int, a1 # b1, Same(d * k, e, P)
      PROVE  r = AddPoints(a, b) <=> /\ Same(k * k - a1 - b1, r1, P)
                                     /\ Same(k * (a1 - r1) - a2, r2, P)
  BY <1>3, SumBySlope
<1> HIDE DEF a1, a2, b1, b2, r1, r2, v
<1>4. d \in Int /\ e \in Int /\ e * v \in Int /\ d * v \in Int
  BY <1>2
<1>5. Same(l, e * v, P) /\ l \in Int
  BY <1>0, <1>4, SameRemainder
<1>6. Eq1 <=> Same(d * v, 1, P)
  <2>1. 1 \in Int
    OBVIOUS
  <2>2. QED
    BY <1>0, <1>4, <2>1, SameDifference
<1>7. Same(d * v, 1, P) => a1 # b1
  <2> SUFFICES ASSUME Same(d * v, 1, P), a1 = b1 PROVE FALSE
    OBVIOUS
  <2>1. d * v = 0
    BY <1>2
  <2>2. 1 \in 0 .. P - 1 /\ 0 \in 0 .. P - 1
    BY <1>0
  <2>3. QED
    BY <1>0, <2>1, <2>2, SameSmall
<1> HIDE DEF d, e, l
<1>8. ASSUME Same(d * v, 1, P) PROVE Same(d * l, e, P)
  <2> DEFINE dl == d * l
             dev == d * (e * v)
             dv == d * v
  <2>1. Same(dl, dev, P)
    <3>1. Same(d, d, P)
      BY <1>0, <1>4, SameRefl
    <3>2. QED
      BY <1>0, <1>4, <1>5, <3>1, SameProduct
  <2>2. dev = dv * e /\ dl \in Int /\ dev \in Int /\ dv \in Int
    BY <1>2, <1>4, <1>5, Z3
  <2>3. Same(dv, 1, P)
    BY <1>8
  <2> HIDE DEF dv, dl, dev
  <2>4. Same(dv * e, 1 * e, P)
    <3>1. Same(e, e, P) /\ 1 \in Int
      BY <1>0, <1>4, SameRefl
    <3>2. QED
      BY <1>0, <1>4, <2>2, <2>3, <3>1, SameProduct
  <2>5. 1 * e = e
    BY <1>4
  <2>6. Same(dl, e, P)
    BY <1>0, <1>4, <2>1, <2>2, <2>4, <2>5, SameTrans
  <2>7. QED
    BY <2>6 DEF dl
<1>9. ASSUME Same(d * v, 1, P) PROVE Eq2
  <2> DEFINE dl == l * d
  <2>1. Same(d * l, e, P) /\ d * l = l * d
    BY <1>4, <1>5, <1>8, <1>9, Z3
  <2>2. dl \in Int /\ Same(dl, e, P)
    BY <1>4, <1>5, <2>1
  <2>3. Eq2 <=> (dl - b2 + a2) % P = 0
    OBVIOUS
  <2> HIDE DEF dl, Eq2
  <2>4. (dl - e) % P = 0
    BY <1>0, <1>4, <2>2, SameDifference
  <2>5. dl - e = dl - b2 + a2
    BY <1>2, <2>2 DEF e
  <2>6. QED
    BY <2>3, <2>4, <2>5
<1>10. Eq3 <=> Same(l * l - a1 - b1, r1, P)
  <2> DEFINE x == l * l - a1 - b1
  <2>1. x \in Int
    BY <1>2, <1>5
  <2>2. Eq3 <=> (x - r1) % P = 0
    OBVIOUS
  <2> HIDE DEF x, Eq3
  <2>3. QED
    BY <1>0, <1>2, <2>1, <2>2, SameDifference DEF x
<1>11. Eq4 <=> Same(l * (a1 - r1) - a2, r2, P)
  <2> DEFINE m == l * (a1 - r1)
             x == m - a2
  <2>1. m \in Int
    BY <1>2, <1>5
  <2>2. Eq4 <=> (r2 + a2 - m) % P = 0
    OBVIOUS
  <2> HIDE DEF m, Eq4
  <2>3. x \in Int /\ r2 + a2 - m = r2 - x
    BY <1>2, <2>1
  <2>4. Eq4 <=> Same(r2, x, P)
    <3> HIDE DEF x
    <3>1. (r2 - x) % P = 0 <=> Same(r2, x, P)
      BY <1>0, <1>2, <2>3, SameDifference
    <3>2. QED
      BY <2>2, <2>3, <3>1
  <2>5. Same(r2, x, P) <=> Same(x, r2, P)
    <3> HIDE DEF x
    <3>1. QED
      BY <1>0, <1>2, <2>3, SameSym
  <2>6. QED
    BY <2>4, <2>5 DEF m
<1> HIDE DEF Eq1, Eq2, Eq3, Eq4, a, b, r
<1>12. Same(d * v, 1, P) => (r = AddPoints(a, b) <=> Eq3 /\ Eq4)
  <2> SUFFICES ASSUME Same(d * v, 1, P) PROVE r = AddPoints(a, b) <=> Eq3 /\ Eq4
    OBVIOUS
  <2>1. a1 # b1 /\ Same(d * l, e, P)
    BY <1>7, <1>8
  <2>2. r = AddPoints(a, b) <=> /\ Same(l * l - a1 - b1, r1, P)
                                /\ Same(l * (a1 - r1) - a2, r2, P)
    BY <1>3, <1>5, <2>1
  <2>3. QED
    BY <1>10, <1>11, <2>2
<1>13. C11FinalAdd <=> Same(d * v, 1, P) /\ a1 # b1 /\ r = AddPoints(a, b)
  BY <1>1, <1>6, <1>7, <1>9, <1>12
<1>14. QED
  BY <1>13 DEF d, v, a1, b1, r, a, b
-----------------------------------------------------------------------------
(* c12 looks at every point of the witness. *)
LEMMA PointsOnCurve ==
    ASSUME C12OnCurve
    PROVE  OnCurve(wit.corrected[1]) /\ OnCurve(wit.corrected[2]) /\ OnCurve(wit.final)
<1>0. Bits \in Nat
  BY SizeFacts
<1> DEFINE i == 2 * Bits + 1
           j == 2 * Bits + 2
           k == 2 * Bits + 3
<1>1. i \in 1 .. 2 * Bits + 3 /\ j \in 1 .. 2 * Bits + 3 /\ k \in 1 .. 2 * Bits + 3
  BY <1>0
<1>2. /\ ~(i <= Bits) /\ ~(i <= 2 * Bits) /\ i <= 2 * Bits + 2 /\ i - 2 * Bits = 1
      /\ ~(j <= Bits) /\ ~(j <= 2 * Bits) /\ j <= 2 * Bits + 2 /\ j - 2 * Bits = 2
      /\ ~(k <= Bits) /\ ~(k <= 2 * Bits) /\ ~(k <= 2 * Bits + 2)
  BY <1>0
<1> HIDE DEF i, j, k
<1>3. DOMAIN C12Points = 1 .. 2 * Bits + 3
  BY DEF C12Points
<1>4. C12Points[i] = wit.corrected[1] /\ C12Points[j] = wit.corrected[2] /\ C12Points[k] = wit.final
  BY <1>1, <1>2 DEF C12Points
<1>5. \A n \in 1 .. 2 * Bits + 3 : OnCurve(C12Points[n])
  BY <1>3 DEF C12OnCurve
<1>6. QED
  BY <1>1, <1>4, <1>5

LEMMA GeneratedPoints ==
    ASSUME Generated
    PROVE  C12OnCurve
<1>0. Bits \in Nat
  BY SizeFacts
<1>1. /\ wit.g \in Seq(Affine) /\ Len(wit.g) = Bits
      /\ wit.q \in Seq(Affine) /\ Len(wit.q) = Bits
  BY DEF Generated, WalksMade, WalkedOver
<1>2. /\ wit.corrected = <<Part(input, 1), Part(input, 2)>>
      /\ Part(input, 1) \in Affine /\ Part(input, 2) \in Affine /\ wit.final \in Affine
  BY DEF Generated, EndpointsMade, FinalMade
<1>3. wit.corrected[1] \in Affine /\ wit.corrected[2] \in Affine
  BY <1>2
<1>4. (\A n \in 1 .. Bits : wit.g[n] \in Affine) /\ (\A n \in 1 .. Bits : wit.q[n] \in Affine)
  BY <1>1
<1>5. ASSUME NEW n \in 1 .. 2 * Bits + 3 PROVE C12Points[n] \in Affine
  <2>1. CASE n <= Bits
    <3>1. n \in 1 .. Bits
      BY <1>0, <2>1
    <3>2. C12Points[n] = wit.g[n]
      BY <2>1 DEF C12Points
    <3>3. QED
      BY <1>4, <3>1, <3>2
  <2>2. CASE ~(n <= Bits) /\ n <= 2 * Bits
    <3>1. n - Bits \in 1 .. Bits
      BY <1>0, <2>2
    <3>2. C12Points[n] = wit.q[n - Bits]
      BY <2>2 DEF C12Points
    <3>3. QED
      BY <1>4, <3>1, <3>2
  <2>3. CASE ~(n <= Bits) /\ ~(n <= 2 * Bits) /\ n <= 2 * Bits + 2
    <3>1. n - 2 * Bits \in {1, 2}
      BY <1>0, <2>3
    <3>2. C12Points[n] = wit.corrected[n - 2 * Bits]
      BY <2>3 DEF C12Points
    <3>3. QED
      BY <1>3, <3>1, <3>2
  <2>4. CASE ~(n <= Bits) /\ ~(n <= 2 * Bits) /\ ~(n <= 2 * Bits + 2)
    <3>1. C12Points[n] = wit.final
      BY <2>4 DEF C12Points
    <3>2. QED
      BY <1>2, <3>1
  <2>5. QED
    BY <2>1, <2>2, <2>3, <2>4
<1>6. DOMAIN C12Points = 1 .. 2 * Bits + 3
  BY DEF C12Points
<1>7. \A n \in DOMAIN C12Points : OnCurve(C12Points[n])
  BY <1>5, <1>6, AffineFacts
<1>8. QED
  BY <1>7 DEF C12OnCurve

(* One subtraction of the order reduces a field element. *)
LEMMA Reduced ==
    ASSUME NEW x \in 0 .. P - 1
    PROVE  /\ ReduceX(x)[2] = x % N /\ ReduceX(x)[2] \in 0 .. N - 1 /\ ReduceX(x)[2] \in Int
           /\ (ReduceX(x) = <<0, x>> /\ x < N) \/ (ReduceX(x) = <<1, x - N>> /\ N <= x)
<1>0. P \in Nat /\ N \in Nat \ {0} /\ P < 2 * N /\ x \in Int
  BY PrimesFacts
<1>1. CASE x >= N
  <2>1. ReduceX(x) = <<1, x - N>>
    BY <1>1 DEF ReduceX
  <2>2. x - N \in 0 .. N - 1 /\ 1 \in Int
    BY <1>0, <1>1
  <2>3. (1 * N + (x - N)) % N = x - N
    BY <1>0, <2>2, UniqueDivision
  <2>4. 1 * N + (x - N) = x
    BY <1>0
  <2>5. QED
    BY <1>0, <1>1, <2>1, <2>2, <2>3, <2>4
<1>2. CASE ~(x >= N)
  <2>1. ReduceX(x) = <<0, x>>
    BY <1>2 DEF ReduceX
  <2>2. x \in 0 .. N - 1
    BY <1>0, <1>2
  <2>3. x % N = x
    BY <1>0, <2>2, SmallRemainder
  <2>4. QED
    BY <1>0, <1>2, <2>1, <2>2, <2>3
<1>3. QED
  BY <1>1, <1>2

LEMMA ZeroVanishes == 0 % P = 0
<1>1. P \in Nat \ {0} /\ 0 \in 0 .. P - 1
  BY PrimesFacts
<1>2. QED
  BY <1>1, SmallRemainder

(* c14 accepts the reduction that is written, when it is r. *)
LEMMA GeneratedReduction ==
    ASSUME ScalarsMade, FinalMade
    PROVE  C14FinalCheck <=> wit.reduction[2] = input.r
<1> DEFINE x == wit.final[1]
<1>0. P \in Nat \ {0} /\ N \in Nat
  BY PrimesFacts
<1>1. x \in 0 .. P - 1 /\ x \in Int /\ wit.reduction = ReduceX(x) /\ wit.flags = <<0, 0, 0>>
  BY AffineFacts DEF FinalMade, ScalarsMade
<1> HIDE DEF x
<1>2. wit.reduction = <<0, x>> \/ wit.reduction = <<1, x - N>>
  BY <1>1, Reduced
<1>3. (wit.reduction[1] * wit.reduction[1] - wit.reduction[1]) % P = 0
  <2>1. wit.reduction[1] \in {0, 1}
    BY <1>2
  <2>2. wit.reduction[1] * wit.reduction[1] - wit.reduction[1] = 0
    BY <2>1
  <2>3. QED
    BY <2>2, ZeroVanishes
<1>4. (x - N * wit.reduction[1] - wit.reduction[2]) % P = 0
  <2>1. CASE wit.reduction = <<0, x>>
    <3>1. wit.reduction[1] = 0 /\ wit.reduction[2] = x
      BY <2>1
    <3>2. x - N * 0 - x = 0
      BY <1>0, <1>1
    <3>3. QED
      BY <3>1, <3>2, ZeroVanishes
  <2>2. CASE wit.reduction = <<1, x - N>>
    <3>1. wit.reduction[1] = 1 /\ wit.reduction[2] = x - N
      BY <2>2
    <3>2. x - N * 1 - (x - N) = 0
      BY <1>0, <1>1
    <3>3. QED
      BY <3>1, <3>2, ZeroVanishes
  <2>3. QED
    BY <1>2, <2>1, <2>2
<1>5. C14FinalCheck <=> wit.reduction[2] = input.r
  BY <1>1, <1>3, <1>4 DEF C14FinalCheck, x
<1>6. QED
  BY <1>5

LEMMA GeneratedAddition ==
    ASSUME Generated, Parsed(input)
    PROVE  C11FinalAdd
<1>0. P \in Nat \ {0}
  BY PrimesFacts
<1> DEFINE a == Part(input, 1)
           b == Part(input, 2)
           d == b[1] - a[1]
           i == FieldInverse(d % P)
<1>1. /\ a \in Affine /\ b \in Affine /\ wit.final = AddPoints(a, b) /\ wit.final \in Affine
      /\ wit.corrected = <<a, b>> /\ a[1] # b[1] /\ wit.denominv = i
  BY DEF Generated, FinalMade, EndpointsMade, Sum
<1>2. /\ a[1] \in Int /\ b[1] \in Int /\ a[1] \in 0 .. P - 1 /\ b[1] \in 0 .. P - 1
      /\ a \in Pairs /\ b \in Pairs /\ wit.final \in Pairs
      /\ wit.corrected[1] = a /\ wit.corrected[2] = b
  BY <1>1, AffineFacts, AffinePairs
<1>3. d \in Int /\ d % P # 0
  BY <1>1, <1>2, Apart
<1> HIDE DEF d, a, b
<1>4. Same(d % P, d, P) /\ d % P \in 0 .. P - 1 /\ d % P \in Int
  BY <1>0, <1>3, SameRemainder
<1>5. (d % P) % P = d % P
  BY <1>0, <1>4, SmallRemainder
<1>6. i \in Int /\ Same((d % P) * i, 1, P)
  BY <1>3, <1>4, <1>5, FieldInverseFacts
<1>7. Same(d * i, 1, P)
  <2> DEFINE e == d % P
  <2>1. e \in Int /\ Same(e, d, P) /\ Same(e * i, 1, P)
    BY <1>4, <1>6
  <2> HIDE DEF e, i
  <2>2. Same(i, i, P)
    BY <1>0, <1>6, SameRefl
  <2>3. Same(e * i, d * i, P) /\ e * i \in Int /\ d * i \in Int /\ 1 \in Int
    BY <1>0, <1>3, <1>6, <2>1, <2>2, SameProduct
  <2>4. Same(d * i, e * i, P)
    BY <1>0, <2>3, SameSym
  <2>5. QED
    BY <1>0, <2>1, <2>3, <2>4, SameTrans
<1> HIDE DEF i
<1>8. /\ wit.corrected[1] \in Pairs /\ wit.corrected[2] \in Pairs /\ wit.final \in Pairs
      /\ wit.denominv \in Int
  BY <1>1, <1>2, <1>6
<1>9. Same((wit.corrected[2][1] - wit.corrected[1][1]) * wit.denominv, 1, P)
  BY <1>1, <1>2, <1>7 DEF d
<1>10. /\ wit.corrected[1][1] # wit.corrected[2][1]
       /\ wit.final = AddPoints(wit.corrected[1], wit.corrected[2])
  BY <1>1, <1>2
<1>11. QED
  BY <1>8, <1>9, <1>10, FinalAddition

(* The families' verdict on a generated witness rests on r alone, *)
LEMMA GeneratedVerdict ==
    ASSUME Generated, Parsed(input)
    PROVE  CircuitVerdict = "ok" <=> wit.reduction[2] = input.r
<1>1. C1InputLimbs /\ C3ScalarSetup
  BY GeneratedLimbs, GeneratedScalars DEF Generated
<1>2. C2Canonicality
  BY ParsedCanonical
<1>3. C11FinalAdd /\ C12OnCurve
  BY GeneratedAddition, GeneratedPoints
<1>4. C14FinalCheck <=> wit.reduction[2] = input.r
  BY GeneratedReduction DEF Generated
<1>5. QED
  BY <1>1, <1>2, <1>3, <1>4 DEF CircuitVerdict

(* and so does verify_witness's: ECDSA accepts when the sum's x is r modulo N. *)
LEMMA GeneratedSignature ==
    ASSUME FinalMade
    PROVE  ValidSignature(input) <=> wit.reduction[2] = input.r
<1> DEFINE r == wit.final
<1>1. r \in Affine /\ r = Sum(input) /\ wit.reduction = ReduceX(r[1])
  BY DEF FinalMade
<1>2. r # Infinity /\ r[1] \in 0 .. P - 1
  BY <1>1, AffineFacts
<1>3. wit.reduction[2] = r[1] % N
  BY <1>1, <1>2, Reduced
<1>4. ValidSignature(input) <=> Sum(input) # Infinity /\ Sum(input)[1] % N = input.r
  BY DEF ValidSignature, Sum, Part
<1>5. QED
  BY <1>1, <1>2, <1>3, <1>4

-----------------------------------------------------------------------------
(* A witness with one slot altered.                                        *)

(* What the alterations leave: field elements, and a reduction of some x, or
   the generated one with its flag the wrong way round. *)
Loose ==
    /\ wit.final \in Pairs
    /\ wit.corrected = <<wit.corrected[1], wit.corrected[2]>>
    /\ wit.corrected[1] \in Pairs /\ wit.corrected[2] \in Pairs
    /\ wit.denominv \in Int
    /\ wit.reduction[2] \in Int
    /\ \/ wit.reduction[1] = 0
       \/ /\ wit.reduction[1] = 1
          /\ (wit.reduction[2] + N < P \/ wit.reduction[2] = wit.final[1])

BoundFinal ==
    /\ wit.final = AddPoints(wit.corrected[1], wit.corrected[2])
    /\ \A pt \in {wit.final, wit.corrected[1], wit.corrected[2], input.q} : OnCurve(pt)
    /\ wit.final[1] % N = input.r

LEMMA AcceptedBinds ==
    ASSUME Loose, Parsed(input), CircuitVerdict = "ok"
    PROVE  BoundFinal
<1>0. P \in Nat \ {0} /\ N \in Nat \ {0} /\ 1 < N /\ N < P
  BY PrimesFacts
<1>1. C11FinalAdd /\ C12OnCurve /\ C14FinalCheck
  BY DEF CircuitVerdict
<1>2. /\ wit.corrected[1] \in Pairs /\ wit.corrected[2] \in Pairs /\ wit.final \in Pairs
      /\ wit.denominv \in Int
  BY DEF Loose
<1>3. wit.final = AddPoints(wit.corrected[1], wit.corrected[2])
  BY <1>1, <1>2, FinalAddition
<1>4. OnCurve(wit.corrected[1]) /\ OnCurve(wit.corrected[2]) /\ OnCurve(wit.final)
  BY <1>1, PointsOnCurve
<1>5. OnCurve(input.q)
  BY AffineFacts DEF Parsed
<1> DEFINE x == wit.final[1]
           r == input.r
           f == wit.reduction[1]
<1>6. x \in 0 .. P - 1 /\ x \in Int
  BY <1>2, PairFacts
<1>7. r \in 1 .. N - 1 /\ r \in Int /\ wit.reduction[2] = r /\ (x - N * f - r) % P = 0
  BY <1>0, <1>1 DEF C14FinalCheck, Parsed
<1>8. f = 0 \/ (f = 1 /\ (r + N < P \/ r = x))
  BY <1>7 DEF Loose
<1> HIDE DEF x, r, f
<1>9. ASSUME f = 0 PROVE x % N = r
  <2>1. x - N * f - r = x - r
    BY <1>0, <1>6, <1>9
  <2>2. Same(x, r, P)
    BY <1>0, <1>6, <1>7, <2>1, SameDifference
  <2>3. r \in 0 .. P - 1 /\ r \in 0 .. N - 1
    BY <1>0, <1>7
  <2>4. x = r
    BY <1>0, <1>6, <2>2, <2>3, SameSmall
  <2>5. QED
    BY <1>0, <2>3, <2>4, SmallRemainder
<1>10. ASSUME f = 1 PROVE x % N = r
  <2>1. x - N * f - r = x - (r + N) /\ r + N \in Int
    BY <1>0, <1>6, <1>7, <1>10
  <2>2. Same(x, r + N, P)
    BY <1>0, <1>6, <1>7, <2>1, SameDifference
  <2>3. ~(r = x)
    <3> SUFFICES ASSUME r = x PROVE FALSE
      OBVIOUS
    <3>1. r \in 0 .. P - 1 /\ 0 \in 0 .. P - 1 /\ N \in 0 .. P - 1
      BY <1>0, <1>7
    <3>2. N - 0 = -(x - (r + N))
      BY <1>0, <1>6, <1>7
    <3>3. Same(r + N, x, P)
      BY <1>0, <1>6, <2>1, <2>2, SameSym
    <3>4. (r + N) - x = N - 0
      BY <1>0, <1>6, <1>7
    <3>5. Same(N, 0, P)
      BY <3>3, <3>4 DEF Same
    <3>6. QED
      BY <1>0, <3>1, <3>5, SameSmall
  <2>4. r + N \in 0 .. P - 1
    BY <1>0, <1>7, <1>8, <1>10, <2>3
  <2>5. x = r + N
    BY <1>0, <1>6, <2>2, <2>4, SameSmall
  <2>6. r \in 0 .. N - 1 /\ 1 \in Int
    BY <1>0, <1>7
  <2>7. (1 * N + r) % N = r
    BY <1>0, <2>6, UniqueDivision
  <2>8. 1 * N + r = x
    BY <1>0, <1>7, <2>5
  <2>9. QED
    BY <2>7, <2>8
<1>11. x % N = r
  BY <1>8, <1>9, <1>10
<1>12. QED
  BY <1>3, <1>4, <1>5, <1>11 DEF BoundFinal, x, r
-----------------------------------------------------------------------------
(* The inductive invariant.                                                *)
WitnessSlots ==
    wit = [limbs |-> wit.limbs, sinv |-> wit.sinv, u |-> wit.u, quotients |-> wit.quotients,
           flags |-> wit.flags, final |-> wit.final, reduction |-> wit.reduction, g |-> wit.g,
           q |-> wit.q, corrected |-> wit.corrected, denominv |-> wit.denominv]

Early == {"parse", "scalars", "final", "ladder"}

WitnessShape ==
    /\ input \in Inputs /\ altered \in BOOLEAN /\ WitnessSlots
    /\ phase \in Early => ~altered /\ verdict = "none" /\ native = "none" /\ circuits = "none"
    /\ phase \in {"parse", "scalars", "final"} => wit.g = <<>> /\ wit.q = <<>>
    /\ phase \in {"parse", "scalars"} => wit.flags = <<0, 0, 0>>

(* Each walk stands where the bits it has read have taken it. *)
LadderMade ==
    /\ ladder = [of |-> ladder.of, left |-> ladder.left, acc |-> ladder.acc]
    /\ ladder.left \in 0 .. Bits
    /\ ladder.acc = Multiple(Walked(ScalarOf(ladder.of), ladder.left), Base(ladder.of))
    /\ \/ /\ ladder.of = "g"
          /\ WalkedOver(wit.g, ScalarU(input)[1], Gen, Bits - ladder.left)
          /\ wit.q = <<>>
       \/ /\ ladder.of = "q"
          /\ WalkedOver(wit.g, ScalarU(input)[1], Gen, Bits)
          /\ WalkedOver(wit.q, ScalarU(input)[2], input.q, Bits - ladder.left)

Progress ==
    /\ phase \in {"scalars", "final", "ladder", "made"} => Parsed(input)
    /\ phase \in {"final", "ladder"} => ScalarsMade
    /\ phase = "ladder" => FinalMade /\ LadderMade
    /\ phase = "made" => Loose /\ (~altered => Generated)

(* On a generated witness the circuits' verdict is whether r was reached. *)
CircuitsReadR ==
    phase = "made" /\ ~altered /\ circuits # "none" => (circuits = "ok" <=> wit.reduction[2] = input.r)

NativeReadsR ==
    phase = "made" /\ ~altered /\ native # "none" => (native = "ok" <=> wit.reduction[2] = input.r)

WitnessInv ==
    /\ WitnessShape /\ Progress /\ CircuitsReadR /\ NativeReadsR
    /\ OnlyExceptionalRefused /\ NativeIsEcdsa /\ CircuitsAgreeWithNative /\ CircuitsBindFinal

LEMMA WitnessInitInv == WitnessInit => WitnessInv
<1> SUFFICES ASSUME WitnessInit PROVE WitnessInv
  OBVIOUS
<1>1. /\ phase = "parse" /\ input \in Inputs /\ wit = NoWitness /\ altered = FALSE
      /\ verdict = "none" /\ native = "none" /\ circuits = "none"
  BY DEF WitnessInit
<1>2. WitnessSlots /\ wit.g = <<>> /\ wit.q = <<>> /\ wit.flags = <<0, 0, 0>>
  BY <1>1 DEF NoWitness, WitnessSlots
<1>3. WitnessShape
  BY <1>1, <1>2 DEF WitnessShape
<1>4. Progress /\ CircuitsReadR /\ NativeReadsR
  BY <1>1 DEF Progress, CircuitsReadR, NativeReadsR
<1>5. OnlyExceptionalRefused /\ NativeIsEcdsa /\ CircuitsAgreeWithNative /\ CircuitsBindFinal
  BY <1>1 DEF OnlyExceptionalRefused, NativeIsEcdsa, CircuitsAgreeWithNative, CircuitsBindFinal
<1>6. QED
  BY <1>3, <1>4, <1>5 DEF WitnessInv

(* Nothing has been answered before a witness is made. *)
LEMMA EarlyProperties ==
    ASSUME WitnessShape, phase \in Early
    PROVE  /\ OnlyExceptionalRefused /\ NativeIsEcdsa /\ CircuitsAgreeWithNative
           /\ CircuitsBindFinal /\ CircuitsReadR /\ NativeReadsR
<1>1. verdict = "none" /\ native = "none" /\ circuits = "none"
  BY DEF WitnessShape
<1>2. QED
  BY <1>1 DEF OnlyExceptionalRefused, NativeIsEcdsa, CircuitsAgreeWithNative, CircuitsBindFinal,
              CircuitsReadR, NativeReadsR

(* The same, after a step. *)
LEMMA EarlyAfter ==
    ASSUME WitnessShape', (phase \in Early)'
    PROVE  /\ OnlyExceptionalRefused' /\ NativeIsEcdsa' /\ CircuitsAgreeWithNative'
           /\ CircuitsBindFinal' /\ CircuitsReadR' /\ NativeReadsR'
<1>1. verdict' = "none" /\ native' = "none" /\ circuits' = "none"
  BY DEF WitnessShape
<1>2. QED
  BY <1>1 DEF OnlyExceptionalRefused, NativeIsEcdsa, CircuitsAgreeWithNative, CircuitsBindFinal,
              CircuitsReadR, NativeReadsR

(* A refusal ends the generation; one of an exceptional input is no loss. *)
LEMMA RefuseKeeps ==
    ASSUME WitnessInv, phase \in Early, NEW err, Refuse(err), err # "ok",
           err = "ExceptionalTrace" => Exceptional(input)
    PROVE  WitnessInv'
<1>1. /\ verdict' = err /\ phase' = "refused"
      /\ UNCHANGED <<input, wit, ladder, altered, native, circuits>>
  BY DEF Refuse
<1>2. native' = "none" /\ circuits' = "none" /\ input \in Inputs /\ altered \in BOOLEAN /\ WitnessSlots
  BY <1>1 DEF WitnessInv, WitnessShape
<1>3. WitnessShape'
  BY <1>1, <1>2 DEF WitnessShape, WitnessSlots, Early
<1>4. Progress' /\ CircuitsReadR' /\ NativeReadsR'
  BY <1>1 DEF Progress, CircuitsReadR, NativeReadsR
<1>5. NativeIsEcdsa' /\ CircuitsAgreeWithNative' /\ CircuitsBindFinal'
  BY <1>2 DEF NativeIsEcdsa, CircuitsAgreeWithNative, CircuitsBindFinal
<1>6. OnlyExceptionalRefused'
  BY <1>1 DEF OnlyExceptionalRefused
<1>7. QED
  BY <1>3, <1>4, <1>5, <1>6 DEF WitnessInv

LEMMA ParseKeeps == WitnessInv /\ Parse => WitnessInv'
<1> SUFFICES ASSUME WitnessInv, Parse PROVE WitnessInv'
  OBVIOUS
<1>1. phase = "parse" /\ phase \in Early
  BY DEF Parse, Early
<1>2. CASE ParseVerdict(input) # "ok"
  <2>1. Refuse(ParseVerdict(input))
    BY <1>2 DEF Parse
  <2>2. ParseVerdict(input) # "ExceptionalTrace"
    BY DEF ParseVerdict
  <2> DEFINE err == ParseVerdict(input)
  <2>3. Refuse(err) /\ err # "ok" /\ err # "ExceptionalTrace"
    BY <1>2, <2>1, <2>2
  <2> HIDE DEF err
  <2>4. QED
    BY <1>1, <2>3, RefuseKeeps
<1>3. CASE ParseVerdict(input) = "ok"
  <2>1. /\ phase' = "scalars"
        /\ UNCHANGED <<input, wit, ladder, altered, verdict, native, circuits>>
    BY <1>3 DEF Parse
  <2>2. WitnessShape /\ input \in Inputs
    BY DEF WitnessInv, WitnessShape
  <2>3. WitnessShape' /\ (phase \in Early)'
    BY <1>1, <2>1, <2>2 DEF WitnessShape, WitnessSlots, Early
  <2>4. Parsed(input)
    BY <1>3, <2>2, ParsedFacts
  <2>5. Progress'
    BY <2>1, <2>4 DEF Progress
  <2>6. QED
    BY <2>3, <2>5, EarlyAfter DEF WitnessInv
<1>4. QED
  BY <1>2, <1>3

LEMMA ScalarsKeeps == WitnessInv /\ Scalars => WitnessInv'
<1> SUFFICES ASSUME WitnessInv, Scalars PROVE WitnessInv'
  OBVIOUS
<1> DEFINE sinv == ScalarInverse(input.s)
           limbs == [i \in 1 .. 5 |-> Limbs13(InputValues(input)[i])]
           u == <<(input.z * sinv) % N, (input.r * sinv) % N>>
           quotients == <<(input.s * sinv) \div N, (input.z * sinv) \div N, (input.r * sinv) \div N>>
<1>1. /\ phase = "scalars" /\ phase' = "final"
      /\ wit' = [wit EXCEPT !.limbs = limbs, !.sinv = sinv, !.u = u, !.quotients = quotients]
      /\ UNCHANGED <<input, ladder, altered, verdict, native, circuits>>
  BY DEF Scalars
<1>2. WitnessShape /\ Parsed(input)
  BY <1>1 DEF WitnessInv, Progress
<1>3. wit.flags = <<0, 0, 0>> /\ wit.g = <<>> /\ wit.q = <<>> /\ WitnessSlots
  BY <1>1, <1>2 DEF WitnessShape
<1>4. u = ScalarU(input)
  BY DEF ScalarU
<1>5. /\ wit'.limbs = limbs /\ wit'.sinv = sinv /\ wit'.u = u /\ wit'.quotients = quotients
      /\ wit'.flags = wit.flags /\ wit'.g = wit.g /\ wit'.q = wit.q /\ WitnessSlots'
  <2> HIDE DEF sinv, limbs, u, quotients
  <2>1. QED
    BY <1>1, <1>3 DEF WitnessSlots
<1>6. ScalarsMade'
  BY <1>1, <1>3, <1>4, <1>5 DEF ScalarsMade
<1> HIDE DEF sinv, limbs, u, quotients
<1>7. WitnessShape' /\ (phase \in Early)'
  BY <1>1, <1>2, <1>3, <1>5 DEF WitnessShape, Early
<1>8. Progress'
  BY <1>1, <1>2, <1>6 DEF Progress
<1>9. QED
  BY <1>7, <1>8, EarlyAfter DEF WitnessInv

LEMMA FinalPointKeeps == WitnessInv /\ FinalPoint => WitnessInv'
<1> SUFFICES ASSUME WitnessInv, FinalPoint PROVE WitnessInv'
  OBVIOUS
<1> DEFINE a == Part(input, 1)
           b == Part(input, 2)
           r == AddPoints(a, b)
<1>1. phase = "final" /\ phase \in Early
  BY DEF FinalPoint, Early
<1>2. WitnessShape /\ Parsed(input) /\ ScalarsMade
  BY <1>1 DEF WitnessInv, Progress
<1>3. wit.u = ScalarU(input)
  BY <1>2 DEF ScalarsMade
<1>4. Multiple(wit.u[1], Gen) = a /\ Multiple(wit.u[2], input.q) = b
  BY <1>3 DEF Part
<1>5. IF Infinity \in {a, b, r}
      THEN Refuse("ExceptionalTrace")
      ELSE /\ wit' = [wit EXCEPT !.reduction = ReduceX(r[1]), !.final = r]
           /\ ladder' = [of |-> "g", left |-> Bits, acc |-> Gen]
           /\ phase' = "ladder"
           /\ UNCHANGED <<input, altered, verdict, native, circuits>>
  BY <1>4 DEF FinalPoint
<1>6. a \in Points /\ b \in Points
  BY <1>2, PartPoints
<1>7. r \in Points
  BY <1>6, Closed
<1>8. CASE Infinity \in {a, b, r}
  <2>1. Exceptional(input)
    <3> DEFINE u == ScalarU(input)
    <3>1. /\ u[1] \in 0 .. N - 1 /\ u[2] \in 0 .. N - 1 /\ u[1] \in Nat /\ u[2] \in Nat /\ u[2] # 0
          /\ input.q \in Affine /\ N \in Nat \ {0}
      BY <1>2, ScalarUFacts, PrimesFacts DEF Parsed
    <3>2. a = Multiple(u[1], Gen) /\ b = Multiple(u[2], input.q)
      BY DEF Part
    <3>3. u[1] % N = u[1] /\ u[2] % N = u[2]
      BY <3>1, SmallRemainder
    <3>4. Exceptional(input) <=> \/ u[1] = 0
                                 \/ a \in {b, Negate(b)}
                                 \/ \E i \in 1 .. 2 : WalkMeetsInfinity(u[i])
      BY <3>2 DEF Exceptional
    <3> HIDE DEF u, a, b, r
    <3>5. CASE a = Infinity
      <4>1. u[1] % N = 0
        BY <3>1, <3>2, <3>5, GenFacts, MultipleInfinity
      <4>2. QED
        BY <3>3, <3>4, <4>1
    <3>6. CASE b = Infinity
      <4>1. u[2] % N = 0
        BY <3>1, <3>2, <3>6, MultipleInfinity
      <4>2. QED
        BY <3>1, <3>3, <4>1
    <3>7. CASE a # Infinity /\ b # Infinity /\ r = Infinity
      <4>1. a \in Affine /\ b \in Affine
        BY <1>6, <3>7, PointCases
      <4>2. a = Negate(b)
        BY <3>7, <4>1, SumInfinity DEF r
      <4>3. QED
        BY <3>4, <4>2
    <3>8. QED
      BY <1>8, <3>5, <3>6, <3>7
  <2>2. Refuse("ExceptionalTrace")
    BY <1>5, <1>8
  <2>3. QED
    BY <1>1, <2>1, <2>2, RefuseKeeps
<1>9. CASE Infinity \notin {a, b, r}
  <2>1. a \in Affine /\ b \in Affine /\ r \in Affine
    BY <1>6, <1>7, <1>9, PointCases
  <2>2. r = Sum(input)
    BY DEF Sum
  <2> HIDE DEF a, b, r
  <2> DEFINE x == ReduceX(r[1])
  <2>3. /\ wit' = [wit EXCEPT !.reduction = x, !.final = r]
        /\ ladder' = [of |-> "g", left |-> Bits, acc |-> Gen]
        /\ phase' = "ladder"
        /\ UNCHANGED <<input, altered, verdict, native, circuits>>
    BY <1>5, <1>9
  <2>4. WitnessSlots /\ wit.g = <<>> /\ wit.q = <<>>
    BY <1>1, <1>2 DEF WitnessShape
  <2> HIDE DEF x
  <2>5. /\ wit'.reduction = x /\ wit'.final = r /\ wit'.g = wit.g /\ wit'.q = wit.q /\ WitnessSlots'
        /\ wit'.limbs = wit.limbs /\ wit'.sinv = wit.sinv /\ wit'.u = wit.u
        /\ wit'.quotients = wit.quotients /\ wit'.flags = wit.flags
    BY <2>3, <2>4 DEF WitnessSlots
  <2>6. ScalarsMade'
    BY <1>2, <2>3, <2>5 DEF ScalarsMade
  <2>7. FinalMade'
    BY <2>1, <2>2, <2>3, <2>5 DEF FinalMade, a, b, x
  <2>8. LadderMade'
    <3> DEFINE u == ScalarU(input)
    <3>1. u[1] \in 0 .. N - 1 /\ Bits \in Nat
      BY <1>2, ScalarUFacts, SizeFacts
    <3>2. Walked(u[1], Bits) = 1
      BY <3>1, WalkedBegin
    <3>3. ladder'.of = "g" /\ ladder'.left = Bits /\ ladder'.acc = Gen
          /\ ladder' = [of |-> ladder'.of, left |-> ladder'.left, acc |-> ladder'.acc]
      BY <2>3
    <3>4. ScalarOf(ladder.of)' = u[1] /\ Base(ladder.of)' = Gen
      BY <1>3, <2>5, <3>3 DEF ScalarOf, Base
    <3>5. Multiple(1, Gen) = Gen
      BY MultipleOne
    <3>6. Bits - Bits = 0 /\ Bits \in 0 .. Bits
      BY <3>1
    <3>7. WalkedOver(<<>>, u[1], Gen, 0)
      BY DEF WalkedOver
    <3>8. WalkedOver(wit'.g, u[1], Gen, Bits - ladder'.left) /\ wit'.q = <<>>
      BY <2>4, <2>5, <3>3, <3>6, <3>7
    <3>9. ladder'.acc = Multiple(Walked(u[1], ladder'.left), Gen)
      BY <3>2, <3>3, <3>5
    <3>10. QED
      BY <2>3, <3>3, <3>4, <3>6, <3>8, <3>9 DEF LadderMade
  <2>9. WitnessShape' /\ (phase \in Early)'
    BY <1>1, <1>2, <2>3, <2>5 DEF WitnessShape, Early
  <2>10. Progress'
    BY <1>2, <2>3, <2>6, <2>7, <2>8 DEF Progress
  <2>11. QED
    BY <2>9, <2>10, EarlyAfter DEF WitnessInv
<1>10. QED
  BY <1>8, <1>9
-----------------------------------------------------------------------------
(* The walks.                                                              *)

(* One more round is recorded. *)
LEMMA WalkGrows ==
    ASSUME NEW walk, NEW u, NEW base, NEW n \in Nat, WalkedOver(walk, u, base, n),
           NEW acc \in Affine, acc = Multiple(Walked(u, Bits - (n + 1)), base)
    PROVE  WalkedOver(Append(walk, acc), u, base, n + 1)
<1> DEFINE w == Append(walk, acc)
<1>1. walk \in Seq(Affine) /\ Len(walk) = n /\ \A j \in 1 .. n : walk[j] = Multiple(Walked(u, Bits - j), base)
  BY DEF WalkedOver
<1>2. /\ w \in Seq(Affine) /\ Len(w) = n + 1 /\ w[n + 1] = acc
      /\ \A j \in 1 .. n : w[j] = walk[j]
  BY <1>1
<1> HIDE DEF w
<1>3. ASSUME NEW j \in 1 .. n + 1 PROVE w[j] = Multiple(Walked(u, Bits - j), base)
  <2>1. CASE j = n + 1
    BY <1>2, <2>1
  <2>2. CASE j # n + 1
    <3>1. j \in 1 .. n
      BY <2>2
    <3>2. QED
      BY <1>1, <1>2, <3>1
  <2>3. QED
    BY <2>1, <2>2
<1>4. WalkedOver(w, u, base, n + 1)
  BY <1>2, <1>3 DEF WalkedOver
<1>5. QED
  BY <1>4 DEF w

(* A recorded round stands for a multiple of its base that does not vanish. *)
LEMMA WalkAvoids ==
    ASSUME NEW walk, NEW u \in Nat, NEW base \in Affine, WalkedOver(walk, u, base, Bits)
    PROVE  ~WalkMeetsInfinity(u)
<1> SUFFICES ASSUME NEW left \in 0 .. Bits - 1, Walked(u, left) % N = 0 PROVE FALSE
  BY DEF WalkMeetsInfinity, Walked
<1> DEFINE j == Bits - left
<1>1. Bits \in Nat /\ left \in 0 .. Bits
  BY SizeFacts
<1>2. j \in 1 .. Bits /\ Bits - j = left
  BY <1>1
<1> HIDE DEF j
<1>3. walk[j] = Multiple(Walked(u, left), base) /\ walk[j] \in Affine
  BY <1>2 DEF WalkedOver
<1>4. Walked(u, left) \in Nat
  BY <1>1, WalkedNat
<1>5. walk[j] = Infinity
  BY <1>3, <1>4, MultipleInfinity
<1>6. QED
  BY <1>3, <1>5, InfinityPoint

(* The scalar and the base of a walk. *)
WalkScalar(who) == IF who = "g" THEN ScalarU(input)[1] ELSE ScalarU(input)[2]

LEMMA WalkFacts ==
    ASSUME Parsed(input), ScalarsMade, NEW who \in {"g", "q"}
    PROVE  /\ ScalarOf(who) = WalkScalar(who)
           /\ WalkScalar(who) \in 0 .. N - 1 /\ WalkScalar(who) \in Nat
           /\ Base(who) \in Affine /\ Base(who) \in Points
           /\ WalkMeetsInfinity(WalkScalar(who)) => Exceptional(input)
<1>1. wit.u = ScalarU(input)
  BY DEF ScalarsMade
<1>2. /\ ScalarU(input)[1] \in 0 .. N - 1 /\ ScalarU(input)[2] \in 0 .. N - 1
      /\ ScalarU(input)[1] \in Nat /\ ScalarU(input)[2] \in Nat
  BY ScalarUFacts
<1>3. ScalarOf(who) = WalkScalar(who) /\ WalkScalar(who) \in 0 .. N - 1 /\ WalkScalar(who) \in Nat
  BY <1>1, <1>2 DEF ScalarOf, WalkScalar
<1>4. Base(who) \in Affine
  BY GenFacts DEF Base, Parsed
<1>5. WalkMeetsInfinity(WalkScalar(who)) => Exceptional(input)
  <2>1. WalkScalar(who) = ScalarU(input)[1] \/ WalkScalar(who) = ScalarU(input)[2]
    BY DEF WalkScalar
  <2>2. (\E i \in 1 .. 2 : WalkMeetsInfinity(ScalarU(input)[i])) => Exceptional(input)
    BY DEF Exceptional
  <2>3. 1 \in 1 .. 2 /\ 2 \in 1 .. 2
    OBVIOUS
  <2>4. QED
    BY <2>1, <2>2, <2>3
<1>6. QED
  BY <1>3, <1>4, <1>5, AffineFacts

LEMMA LadderStepKeeps == WitnessInv /\ LadderStep => WitnessInv'
<1> SUFFICES ASSUME WitnessInv, LadderStep PROVE WitnessInv'
  OBVIOUS
<1> DEFINE who == ladder.of
           left == ladder.left
           u == WalkScalar(who)
           base == Base(who)
           doubled == AddPoints(ladder.acc, ladder.acc)
           acc == IF ScalarBit(u, left - 1) = 1 THEN AddPoints(doubled, base) ELSE doubled
<1>1. phase = "ladder" /\ phase \in Early /\ left > 0
  BY DEF LadderStep, Early
<1>2. WitnessShape /\ Parsed(input) /\ ScalarsMade /\ FinalMade /\ LadderMade /\ WitnessSlots
  BY <1>1 DEF WitnessInv, Progress, WitnessShape
<1>3. /\ ladder = [of |-> who, left |-> left, acc |-> ladder.acc]
      /\ who \in {"g", "q"} /\ left \in 0 .. Bits
      /\ ladder.acc = Multiple(Walked(ScalarOf(who), left), base)
  BY <1>2 DEF LadderMade
<1>4. ScalarOf(who) = u /\ u \in Nat /\ base \in Affine /\ base \in Points
  BY <1>2, <1>3, WalkFacts
<1>5. Bits \in Nat /\ left \in 1 .. Bits /\ left - 1 \in 0 .. Bits - 1 /\ left - 1 \in 0 .. Bits
  BY <1>1, <1>3, SizeFacts
<1>6. IF acc = Infinity
      THEN Refuse("ExceptionalTrace")
      ELSE /\ ladder' = [ladder EXCEPT !.left = @ - 1, !.acc = acc]
           /\ wit' = [wit EXCEPT ![who] = Append(@, acc)]
           /\ UNCHANGED <<phase, input, altered, verdict, native, circuits>>
  BY <1>4 DEF LadderStep
<1>7. acc = Multiple(Walked(u, left - 1), base)
  BY <1>3, <1>4, <1>5, WalkStep
<1>8. Walked(u, left - 1) \in Nat
  BY <1>4, <1>5, WalkedNat
<1> HIDE DEF acc, u, base, doubled
<1>9. CASE acc = Infinity
  <2>1. Walked(u, left - 1) % N = 0
    BY <1>4, <1>7, <1>8, <1>9, MultipleInfinity
  <2>2. WalkMeetsInfinity(u)
    BY <1>5, <2>1 DEF WalkMeetsInfinity, Walked
  <2>3. Exceptional(input)
    BY <1>2, <1>3, <2>2, WalkFacts DEF u
  <2>4. QED
    BY <1>1, <1>6, <1>9, <2>3, RefuseKeeps
<1>10. CASE acc # Infinity
  <2>1. /\ ladder' = [ladder EXCEPT !.left = @ - 1, !.acc = acc]
        /\ wit' = [wit EXCEPT ![who] = Append(@, acc)]
        /\ UNCHANGED <<phase, input, altered, verdict, native, circuits>>
    BY <1>6, <1>10
  <2>2. acc \in Affine
    <3>1. acc \in Points
      BY <1>4, <1>7, <1>8, MultiplePoint
    <3>2. QED
      BY <1>10, <3>1, PointCases
  <2>3. /\ ladder'.of = who /\ ladder'.left = left - 1 /\ ladder'.acc = acc
        /\ ladder' = [of |-> ladder'.of, left |-> ladder'.left, acc |-> ladder'.acc]
    BY <1>3, <2>1
  <2> DEFINE n == Bits - left
  <2>4. n \in Nat /\ Bits - (n + 1) = left - 1 /\ Bits - (left - 1) = n + 1
    BY <1>5
  <2>5. /\ WitnessSlots' /\ wit'.limbs = wit.limbs /\ wit'.sinv = wit.sinv /\ wit'.u = wit.u
        /\ wit'.quotients = wit.quotients /\ wit'.flags = wit.flags
        /\ wit'.reduction = wit.reduction /\ wit'.final = wit.final
        /\ who = "g" => wit'.g = Append(wit.g, acc) /\ wit'.q = wit.q
        /\ who = "q" => wit'.q = Append(wit.q, acc) /\ wit'.g = wit.g
    <3>1. CASE who = "g"
      <4>1. wit' = [wit EXCEPT !["g"] = Append(wit["g"], acc)]
        BY <2>1, <3>1
      <4>2. wit' = [wit EXCEPT !.g = Append(wit.g, acc)]
        BY <4>1
      <4> DEFINE s == Append(wit.g, acc)
      <4> HIDE DEF s, who
      <4>3. QED
        BY <1>2, <3>1, <4>2 DEF WitnessSlots, s
    <3>2. CASE who = "q"
      <4>1. wit' = [wit EXCEPT !["q"] = Append(wit["q"], acc)]
        BY <2>1, <3>2
      <4>2. wit' = [wit EXCEPT !.q = Append(wit.q, acc)]
        BY <4>1
      <4> HIDE DEF who
      <4>3. QED
        BY <1>2, <3>2, <4>2 DEF WitnessSlots
    <3>3. QED
      BY <1>3, <3>1, <3>2
  <2>6. ScalarsMade' /\ FinalMade'
    BY <1>2, <2>1, <2>5 DEF ScalarsMade, FinalMade
  <2>7. ScalarOf(ladder.of)' = u /\ Base(ladder.of)' = base
    <3>1. wit'.u = wit.u /\ input' = input /\ ladder'.of = who
      BY <2>1, <2>3, <2>5
    <3>2. /\ ScalarOf(ladder.of)' = IF ladder'.of = "g" THEN wit'.u[1] ELSE wit'.u[2]
          /\ Base(ladder.of)' = IF ladder'.of = "g" THEN Gen ELSE input'.q
      BY DEF ScalarOf, Base
    <3>3. /\ ScalarOf(who) = IF who = "g" THEN wit.u[1] ELSE wit.u[2]
          /\ base = IF who = "g" THEN Gen ELSE input.q
      BY DEF ScalarOf, Base, base
    <3> HIDE DEF who
    <3>4. QED
      BY <1>4, <3>1, <3>2, <3>3
  <2>8. ladder'.acc = Multiple(Walked(u, ladder'.left), base)
    BY <1>7, <2>3
  <2>9. ladder'.left \in 0 .. Bits /\ Bits - ladder'.left = n + 1
    BY <1>5, <2>3, <2>4
  <2>10. CASE who = "g"
    <3>1. WalkedOver(wit.g, ScalarU(input)[1], Gen, n) /\ wit.q = <<>>
      BY <1>2, <2>10 DEF LadderMade
    <3>2. u = ScalarU(input)[1] /\ base = Gen
      BY <2>10 DEF u, base, WalkScalar, Base
    <3> HIDE DEF n
    <3>3. WalkedOver(Append(wit.g, acc), u, Gen, n + 1)
      BY <1>7, <2>2, <2>4, <3>1, <3>2, WalkGrows
    <3>4. WalkedOver(wit'.g, ScalarU(input)[1], Gen, Bits - ladder'.left) /\ wit'.q = <<>>
      BY <2>5, <2>9, <2>10, <3>1, <3>2, <3>3
    <3>5. LadderMade'
      BY <2>1, <2>3, <2>7, <2>8, <2>9, <2>10, <3>4 DEF LadderMade
    <3>6. WitnessShape' /\ (phase \in Early)'
      BY <1>1, <1>2, <2>1, <2>5 DEF WitnessShape, Early
    <3>7. Progress'
      BY <1>1, <1>2, <2>1, <2>6, <3>5 DEF Progress
    <3>8. QED
      BY <3>6, <3>7, EarlyAfter DEF WitnessInv
  <2>11. CASE who = "q"
    <3>1. WalkedOver(wit.q, ScalarU(input)[2], input.q, n) /\ WalkedOver(wit.g, ScalarU(input)[1], Gen, Bits)
      BY <1>2, <2>11 DEF LadderMade
    <3>2. u = ScalarU(input)[2] /\ base = input.q
      BY <2>11 DEF u, base, WalkScalar, Base
    <3> HIDE DEF n
    <3>3. WalkedOver(Append(wit.q, acc), u, input.q, n + 1)
      BY <1>7, <2>2, <2>4, <3>1, <3>2, WalkGrows
    <3>4. /\ WalkedOver(wit'.q, ScalarU(input)[2], input.q, Bits - ladder'.left)
          /\ WalkedOver(wit'.g, ScalarU(input)[1], Gen, Bits)
      BY <2>5, <2>9, <2>11, <3>1, <3>2, <3>3
    <3>5. LadderMade'
      BY <2>1, <2>3, <2>7, <2>8, <2>9, <2>11, <3>4 DEF LadderMade
    <3>6. WitnessShape' /\ (phase \in Early)'
      BY <1>1, <1>2, <2>1, <2>5 DEF WitnessShape, Early
    <3>7. Progress'
      BY <1>1, <1>2, <2>1, <2>6, <3>5 DEF Progress
    <3>8. QED
      BY <3>6, <3>7, EarlyAfter DEF WitnessInv
  <2>12. QED
    BY <1>3, <2>10, <2>11
<1>11. QED
  BY <1>9, <1>10

LEMMA NextLadderKeeps == WitnessInv /\ NextLadder => WitnessInv'
<1> SUFFICES ASSUME WitnessInv, NextLadder PROVE WitnessInv'
  OBVIOUS
<1>1. /\ phase = "ladder" /\ phase \in Early /\ ladder.left = 0 /\ ladder.of = "g"
      /\ ladder' = [of |-> "q", left |-> Bits, acc |-> input.q]
      /\ UNCHANGED <<phase, input, wit, altered, verdict, native, circuits>>
  BY DEF NextLadder, Early
<1>2. WitnessShape /\ Parsed(input) /\ ScalarsMade /\ FinalMade /\ LadderMade
  BY <1>1 DEF WitnessInv, Progress
<1>3. WalkedOver(wit.g, ScalarU(input)[1], Gen, Bits - 0) /\ wit.q = <<>>
  BY <1>1, <1>2 DEF LadderMade
<1> DEFINE u == ScalarU(input)[2]
<1>4. u \in 0 .. N - 1 /\ Bits \in Nat /\ Bits - 0 = Bits /\ Bits - Bits = 0 /\ Bits \in 0 .. Bits
  BY <1>2, ScalarUFacts, SizeFacts
<1>5. Walked(u, Bits) = 1 /\ Multiple(1, input.q) = input.q
  BY <1>4, WalkedBegin, MultipleOne
<1>6. WalkedOver(<<>>, u, input.q, 0)
  BY DEF WalkedOver
<1>7. /\ ladder'.of = "q" /\ ladder'.left = Bits /\ ladder'.acc = input.q
      /\ ladder' = [of |-> ladder'.of, left |-> ladder'.left, acc |-> ladder'.acc]
  BY <1>1
<1>8. ScalarOf(ladder.of)' = u /\ Base(ladder.of)' = input.q
  BY <1>1, <1>2, <1>7 DEF ScalarOf, Base, ScalarsMade
<1>9. /\ WalkedOver(wit'.g, ScalarU(input')[1], Gen, Bits)
      /\ WalkedOver(wit'.q, ScalarU(input')[2], input'.q, Bits - ladder'.left)
  BY <1>1, <1>3, <1>4, <1>6, <1>7
<1>10. ladder'.acc = Multiple(Walked(u, ladder'.left), input.q) /\ ladder'.left \in 0 .. Bits
  BY <1>4, <1>5, <1>7
<1> HIDE DEF u
<1>11. LadderMade'
  BY <1>7, <1>8, <1>9, <1>10 DEF LadderMade
<1>12. ScalarsMade' /\ FinalMade'
  BY <1>1, <1>2 DEF ScalarsMade, FinalMade
<1>13. WitnessShape' /\ (phase \in Early)'
  BY <1>1, <1>2 DEF WitnessShape, WitnessSlots, Early
<1>14. Progress'
  BY <1>1, <1>2, <1>11, <1>12 DEF Progress
<1>15. QED
  BY <1>13, <1>14, EarlyAfter DEF WitnessInv
-----------------------------------------------------------------------------
(* The end of the generation.                                              *)

(* The bases a walk started from, taken off its end, leave the multiple. *)
LEMMA WalkEnds ==
    ASSUME NEW walk, NEW u \in Nat, NEW base \in Points, WalkedOver(walk, u, base, Bits)
    PROVE  AddPoints(walk[Bits], Negate(Double256(base))) = Multiple(u, base)
<1>1. Bits \in Nat /\ Bits # 0
  <2>1. Bits \in Nat /\ N <= TwoTo[Bits] /\ TwoTo[0] = 1 /\ 1 < N /\ N \in Nat
    BY SizeFacts, LadderPowers, PrimesFacts
  <2>2. ASSUME Bits = 0 PROVE FALSE
    <3>1. N <= TwoTo[0]
      BY <2>1, <2>2
    <3>2. N <= 1
      BY <2>1, <3>1
    <3>3. QED
      BY <2>1, <3>2
  <2>3. QED
    BY <2>1, <2>2
<1>2. Bits \in 1 .. Bits /\ Bits - Bits = 0
  BY <1>1
<1>3. walk[Bits] = Multiple(Walked(u, 0), base)
  BY <1>2 DEF WalkedOver
<1>4. QED
  BY <1>3, CorrectedMultiple

LEMMA CorrectedParts ==
    ASSUME WalksMade, Parsed(input)
    PROVE  Corrected("g") = Part(input, 1) /\ Corrected("q") = Part(input, 2)
<1> DEFINE u == ScalarU(input)
<1>1. u[1] \in Nat /\ u[2] \in Nat
  BY ScalarUFacts
<1>2. Gen \in Points /\ input.q \in Points
  BY GenFacts, AffineFacts DEF Parsed
<1>3. WalkedOver(wit.g, u[1], Gen, Bits) /\ WalkedOver(wit.q, u[2], input.q, Bits)
  BY DEF WalksMade
<1>4. Part(input, 1) = Multiple(u[1], Gen) /\ Part(input, 2) = Multiple(u[2], input.q)
  BY DEF Part
<1>5. /\ Corrected("g") = AddPoints(wit.g[Bits], Negate(Double256(Gen)))
      /\ Corrected("q") = AddPoints(wit.q[Bits], Negate(Double256(input.q)))
  BY DEF Corrected, Base
<1> HIDE DEF u
<1>6. AddPoints(wit.g[Bits], Negate(Double256(Gen))) = Multiple(u[1], Gen)
  BY <1>1, <1>2, <1>3, WalkEnds
<1>7. AddPoints(wit.q[Bits], Negate(Double256(input.q))) = Multiple(u[2], input.q)
  BY <1>1, <1>2, <1>3, WalkEnds
<1>8. QED
  BY <1>4, <1>5, <1>6, <1>7

(* An input whose witness is made is none of the exceptional ones. *)
LEMMA MadeIsOrdinary ==
    ASSUME WalksMade, FinalMade, Parsed(input), Part(input, 1)[1] # Part(input, 2)[1]
    PROVE  ~Exceptional(input)
<1> DEFINE u == ScalarU(input)
           a == Part(input, 1)
           b == Part(input, 2)
<1>1. u[1] \in Nat /\ u[2] \in Nat /\ input.q \in Affine /\ Gen \in Affine
  BY ScalarUFacts, GenFacts DEF Parsed
<1>2. a \in Affine /\ b \in Affine
  BY DEF FinalMade
<1>3. WalkedOver(wit.g, u[1], Gen, Bits) /\ WalkedOver(wit.q, u[2], input.q, Bits)
  BY DEF WalksMade
<1>4. a = Multiple(u[1], Gen) /\ b = Multiple(u[2], input.q)
  BY DEF Part
<1>5. Exceptional(input) <=> \/ u[1] = 0
                             \/ a \in {b, Negate(b)}
                             \/ \E i \in 1 .. 2 : WalkMeetsInfinity(u[i])
  BY <1>4 DEF Exceptional
<1>6. a[1] # b[1]
  OBVIOUS
<1> HIDE DEF u, a, b
<1>7. u[1] # 0
  BY <1>2, <1>4, MultipleZero, AffineFacts
<1>8. a \notin {b, Negate(b)}
  BY <1>2, <1>6, NegateFacts
<1>9. ~WalkMeetsInfinity(u[1]) /\ ~WalkMeetsInfinity(u[2])
  BY <1>1, <1>3, WalkAvoids
<1>10. \A i \in 1 .. 2 : i = 1 \/ i = 2
  OBVIOUS
<1>11. QED
  BY <1>5, <1>7, <1>8, <1>9, <1>10

(* The generated slots are field elements, and the reduction is of some x. *)
LEMMA ReductionLoose ==
    ASSUME NEW x \in 0 .. P - 1
    PROVE  /\ ReduceX(x)[2] \in Int
           /\ \/ ReduceX(x)[1] = 0
              \/ ReduceX(x)[1] = 1 /\ ReduceX(x)[2] + N < P
<1>0. N \in Nat /\ P \in Nat
  BY PrimesFacts
<1>1. ReduceX(x)[2] \in Int /\ (ReduceX(x) = <<0, x>> \/ ReduceX(x) = <<1, x - N>>)
  BY Reduced
<1>2. CASE ReduceX(x) = <<0, x>>
  BY <1>1, <1>2
<1>3. CASE ReduceX(x) = <<1, x - N>>
  <2>1. ReduceX(x)[1] = 1 /\ ReduceX(x)[2] = x - N
    BY <1>3
  <2>2. x - N + N < P
    BY <1>0
  <2>3. QED
    BY <1>1, <2>1, <2>2
<1>4. QED
  BY <1>1, <1>2, <1>3

LEMMA EndpointsKeeps == WitnessInv /\ Endpoints => WitnessInv'
<1> SUFFICES ASSUME WitnessInv, Endpoints PROVE WitnessInv'
  OBVIOUS
<1> DEFINE a == Part(input, 1)
           b == Part(input, 2)
<1>1. phase = "ladder" /\ phase \in Early /\ ladder.left = 0 /\ ladder.of = "q"
  BY DEF Endpoints, Early
<1>2. WitnessShape /\ WitnessSlots /\ Parsed(input) /\ ScalarsMade /\ FinalMade /\ LadderMade
  BY <1>1 DEF WitnessInv, Progress, WitnessShape
<1>3. WalksMade
  <2>1. Bits - 0 = Bits
    BY SizeFacts
  <2>2. /\ WalkedOver(wit.g, ScalarU(input)[1], Gen, Bits)
        /\ WalkedOver(wit.q, ScalarU(input)[2], input.q, Bits - 0)
    BY <1>1, <1>2 DEF LadderMade
  <2>3. QED
    BY <2>1, <2>2 DEF WalksMade
<1>4. Corrected("g") = a /\ Corrected("q") = b
  BY <1>2, <1>3, CorrectedParts
<1>5. IF Infinity \in {a, b} \/ a[1] = b[1]
      THEN Refuse("ExceptionalTrace")
      ELSE /\ wit' = [wit EXCEPT !.corrected = <<a, b>>, !.denominv = FieldInverse((b[1] - a[1]) % P)]
           /\ phase' = "made" /\ verdict' = "ok"
           /\ UNCHANGED <<input, ladder, altered, native, circuits>>
  BY <1>4 DEF Endpoints
<1>6. a \in Affine /\ b \in Affine /\ a # Infinity /\ b # Infinity
  BY <1>2, AffineFacts DEF FinalMade
<1>7. CASE a[1] = b[1]
  <2>1. Exceptional(input)
    <3>1. a \in {b, Negate(b)}
      <4> HIDE DEF a, b
      <4>1. QED
        BY <1>6, <1>7, SameAbscissa
    <3>2. a = Multiple(ScalarU(input)[1], Gen) /\ b = Multiple(ScalarU(input)[2], input.q)
      BY DEF Part
    <3>3. QED
      BY <3>1, <3>2 DEF Exceptional
  <2>2. QED
    BY <1>1, <1>5, <1>7, <2>1, RefuseKeeps
<1>8. CASE a[1] # b[1]
  <2> DEFINE c == <<a, b>>
             d == (b[1] - a[1]) % P
             v == FieldInverse(d)
  <2>1. /\ wit' = [wit EXCEPT !.corrected = c, !.denominv = v]
        /\ phase' = "made" /\ verdict' = "ok"
        /\ UNCHANGED <<input, ladder, altered, native, circuits>>
    BY <1>5, <1>6, <1>8
  <2>2. ~Exceptional(input)
    BY <1>2, <1>3, <1>8, MadeIsOrdinary
  <2>3. a \in Pairs /\ b \in Pairs /\ wit.final \in Pairs /\ wit.final[1] \in 0 .. P - 1
        /\ a[1] \in Int /\ b[1] \in Int /\ a[1] \in 0 .. P - 1 /\ b[1] \in 0 .. P - 1
    BY <1>2, <1>6, AffinePairs, AffineFacts DEF FinalMade
  <2>4. c[1] = a /\ c[2] = b /\ c = <<c[1], c[2]>>
    OBVIOUS
  <2>5. v \in Int
    <3>0. P \in Nat \ {0}
      BY PrimesFacts
    <3> HIDE DEF a, b
    <3> DEFINE e == b[1] - a[1]
    <3>1. e \in Int /\ e % P # 0
      BY <1>8, <2>3, Apart
    <3> HIDE DEF e
    <3>2. e % P \in 0 .. P - 1 /\ e % P \in Int
      BY <3>0, <3>1, SameRemainder
    <3>3. (e % P) % P = e % P
      BY <3>0, <3>2, SmallRemainder
    <3>4. FieldInverse(e % P) \in Int
      BY <3>1, <3>2, <3>3, FieldInverseFacts
    <3>5. QED
      BY <3>4 DEF e
  <2> HIDE DEF c, v, d
  <2>6. /\ WitnessSlots' /\ wit'.limbs = wit.limbs /\ wit'.sinv = wit.sinv /\ wit'.u = wit.u
        /\ wit'.quotients = wit.quotients /\ wit'.flags = wit.flags
        /\ wit'.reduction = wit.reduction /\ wit'.final = wit.final
        /\ wit'.g = wit.g /\ wit'.q = wit.q /\ wit'.corrected = c /\ wit'.denominv = v
    BY <1>2, <2>1 DEF WitnessSlots
  <2>7. ScalarsMade' /\ FinalMade' /\ WalksMade'
    BY <1>2, <1>3, <2>1, <2>6 DEF ScalarsMade, FinalMade, WalksMade
  <2>8. EndpointsMade'
    BY <1>8, <2>1, <2>6 DEF EndpointsMade, c, v, d
  <2>9. Loose'
    <3> DEFINE x == wit.final[1]
    <3>1. wit.reduction = ReduceX(x) /\ x \in 0 .. P - 1
      BY <1>2, <2>3 DEF FinalMade
    <3> HIDE DEF x
    <3>2. /\ wit.reduction[2] \in Int
          /\ wit.reduction[1] = 0 \/ (wit.reduction[1] = 1 /\ wit.reduction[2] + N < P)
      BY <3>1, ReductionLoose
    <3>3. QED
      BY <2>3, <2>4, <2>5, <2>6, <3>2 DEF Loose
  <2>10. native' = "none" /\ circuits' = "none" /\ altered' = FALSE /\ input' \in Inputs
    BY <1>1, <1>2, <2>1 DEF WitnessShape
  <2>11. WitnessShape'
    BY <2>1, <2>6, <2>10 DEF WitnessShape, Early
  <2>12. Progress' /\ CircuitsReadR' /\ NativeReadsR'
    BY <1>2, <2>1, <2>7, <2>8, <2>9, <2>10 DEF Progress, CircuitsReadR, NativeReadsR, Generated
  <2>13. NativeIsEcdsa' /\ CircuitsAgreeWithNative' /\ CircuitsBindFinal'
    BY <2>10 DEF NativeIsEcdsa, CircuitsAgreeWithNative, CircuitsBindFinal
  <2>14. OnlyExceptionalRefused'
    BY <2>1, <2>2 DEF OnlyExceptionalRefused
  <2>15. QED
    BY <2>11, <2>12, <2>13, <2>14 DEF WitnessInv
<1>9. QED
  BY <1>7, <1>8
-----------------------------------------------------------------------------
(* The alterations and the checks.                                         *)

(* Of these slots the circuits' points and the reduction do not speak. *)
LEMMA OtherSlot ==
    ASSUME WitnessSlots, NEW v,
           \/ wit' = [wit EXCEPT !.sinv = v] \/ wit' = [wit EXCEPT !.flags = v]
           \/ wit' = [wit EXCEPT !.limbs = v] \/ wit' = [wit EXCEPT !.u = v]
           \/ wit' = [wit EXCEPT !.quotients = v] \/ wit' = [wit EXCEPT !.g = v]
    PROVE  /\ WitnessSlots' /\ wit'.final = wit.final /\ wit'.corrected = wit.corrected
           /\ wit'.denominv = wit.denominv /\ wit'.reduction = wit.reduction
<1>1. CASE wit' = [wit EXCEPT !.sinv = v]
  BY <1>1 DEF WitnessSlots
<1>2. CASE wit' = [wit EXCEPT !.flags = v]
  BY <1>2 DEF WitnessSlots
<1>3. CASE wit' = [wit EXCEPT !.limbs = v]
  BY <1>3 DEF WitnessSlots
<1>4. CASE wit' = [wit EXCEPT !.u = v]
  BY <1>4 DEF WitnessSlots
<1>5. CASE wit' = [wit EXCEPT !.quotients = v]
  BY <1>5 DEF WitnessSlots
<1>6. CASE wit' = [wit EXCEPT !.g = v]
  BY <1>6 DEF WitnessSlots
<1>7. QED
  BY <1>1, <1>2, <1>3, <1>4, <1>5, <1>6

LEMMA OtherSlotLoose ==
    ASSUME WitnessSlots, Loose, NEW v,
           \/ wit' = [wit EXCEPT !.sinv = v] \/ wit' = [wit EXCEPT !.flags = v]
           \/ wit' = [wit EXCEPT !.limbs = v] \/ wit' = [wit EXCEPT !.u = v]
           \/ wit' = [wit EXCEPT !.quotients = v] \/ wit' = [wit EXCEPT !.g = v]
    PROVE  WitnessSlots' /\ Loose'
<1>1. /\ WitnessSlots' /\ wit'.final = wit.final /\ wit'.corrected = wit.corrected
      /\ wit'.denominv = wit.denominv /\ wit'.reduction = wit.reduction
  BY OtherSlot
<1>2. QED
  BY <1>1 DEF Loose

(* Another point put for one on the curve has its coordinates in the field. *)
LEMMA OtherPairs ==
    ASSUME NEW pt \in Affine, NEW o \in OtherPoints(pt)
    PROVE  o \in Pairs
<1>0. P \in Nat \ {0} /\ 1 \in Int
  BY PrimesFacts
<1>1. pt[1] \in 0 .. P - 1 /\ pt[2] \in Int /\ pt \in Points
  BY AffineFacts
<1>2. o \in {<<pt[1], (pt[2] + 1) % P>>, Negate(pt), AddPoints(pt, pt)} /\ o # Infinity
  BY DEF OtherPoints
<1>3. CASE o = <<pt[1], (pt[2] + 1) % P>>
  <2>1. (pt[2] + 1) % P \in 0 .. P - 1
    BY <1>0, <1>1
  <2>2. QED
    BY <1>1, <1>3, <2>1 DEF Pairs, Field
<1>4. CASE o = Negate(pt)
  BY <1>4, NegateFacts, AffinePairs
<1>5. CASE o = AddPoints(pt, pt)
  <2>1. o \in Points
    BY <1>1, <1>5, Closed
  <2>2. QED
    BY <1>2, <2>1, PointCases, AffinePairs
<1>6. QED
  BY <1>2, <1>3, <1>4, <1>5

LEMMA VariantLoose ==
    ASSUME WitnessSlots, Generated, Loose, Parsed(input), wit' \in Variants
    PROVE  WitnessSlots' /\ Loose'
<1> DEFINE x == wit.final[1]
<1>0. N \in Nat /\ P \in Nat \ {0}
  BY PrimesFacts
<1>1. /\ wit.final \in Affine /\ x \in 0 .. P - 1 /\ x \in Int /\ wit.reduction = ReduceX(x)
      /\ wit.corrected[1] \in Affine /\ wit.corrected[2] \in Affine
  BY AffineFacts DEF Generated, FinalMade, EndpointsMade
<1>2. /\ wit.final \in Pairs /\ wit.corrected = <<wit.corrected[1], wit.corrected[2]>>
      /\ wit.corrected[1] \in Pairs /\ wit.corrected[2] \in Pairs
      /\ wit.denominv \in Int /\ wit.reduction[2] \in Int
  BY DEF Loose
<1> HIDE DEF x
<1>3. /\ wit.reduction[1] = 0 \/ (wit.reduction[1] = 1 /\ wit.reduction[2] + N < P)
  BY <1>1, ReductionLoose
<1>4. CASE \/ wit' = [wit EXCEPT !.sinv = (wit.sinv + 1) % P]
           \/ wit' = [wit EXCEPT !.flags = [wit.flags EXCEPT ![1] = 1]]
           \/ wit' = [wit EXCEPT !.limbs = [wit.limbs EXCEPT ![1] =
                                               [wit.limbs[1] EXCEPT ![1] = wit.limbs[1][1] + 1]]]
           \/ \E i \in 1 .. 2 : wit' = [wit EXCEPT !.u = [wit.u EXCEPT ![i] = (wit.u[i] + 1) % P]]
           \/ \E i \in 1 .. 3 :
                 wit' = [wit EXCEPT !.quotients =
                             [wit.quotients EXCEPT ![i] = (wit.quotients[i] + 1) % P]]
           \/ \E pt \in OtherPoints(wit.g[1]) :
                 wit' = [wit EXCEPT !.g = [wit.g EXCEPT ![1] = pt]]
  <2>1. \E v : \/ wit' = [wit EXCEPT !.sinv = v] \/ wit' = [wit EXCEPT !.flags = v]
               \/ wit' = [wit EXCEPT !.limbs = v] \/ wit' = [wit EXCEPT !.u = v]
               \/ wit' = [wit EXCEPT !.quotients = v] \/ wit' = [wit EXCEPT !.g = v]
    BY <1>4, Zenon
  <2>2. QED
    BY <2>1, OtherSlotLoose
<1>5. CASE wit' = [wit EXCEPT !.denominv = (wit.denominv + 1) % P]
  <2> DEFINE v == (wit.denominv + 1) % P
  <2>1. v \in Int
    BY <1>0, <1>2
  <2>2. wit' = [wit EXCEPT !.denominv = v]
    BY <1>5
  <2> HIDE DEF v
  <2>3. /\ WitnessSlots' /\ wit'.final = wit.final /\ wit'.corrected = wit.corrected
        /\ wit'.denominv = v /\ wit'.reduction = wit.reduction
    BY <2>2 DEF WitnessSlots
  <2>4. QED
    BY <2>1, <2>3 DEF Loose
<1>6. ASSUME NEW v, wit' = [wit EXCEPT !.reduction = v], v[2] \in Int,
             v[1] = 0 \/ (v[1] = 1 /\ v[2] = wit.final[1])
      PROVE  WitnessSlots' /\ Loose'
  <2>1. /\ WitnessSlots' /\ wit'.final = wit.final /\ wit'.corrected = wit.corrected
        /\ wit'.denominv = wit.denominv /\ wit'.reduction = v
    BY <1>6 DEF WitnessSlots
  <2>2. QED
    BY <1>6, <2>1 DEF Loose
<1>7. CASE wit' = [wit EXCEPT !.reduction = <<1 - wit.reduction[1], wit.reduction[2]>>]
  <2> DEFINE v == <<1 - wit.reduction[1], wit.reduction[2]>>
  <2>1. v[1] = 1 - wit.reduction[1] /\ v[2] = wit.reduction[2]
    OBVIOUS
  <2>2. CASE wit.reduction[1] = 0
    <3>1. wit.reduction[2] = x
      BY <1>1, <2>2, Reduced
    <3>2. v[1] = 1
      BY <2>1, <2>2
    <3>3. v[2] \in Int /\ v[1] = 1 /\ v[2] = wit.final[1] /\ wit' = [wit EXCEPT !.reduction = v]
      BY <1>2, <1>7, <2>1, <3>1, <3>2 DEF x
    <3> HIDE DEF v
    <3>4. QED
      BY <1>6, <3>3
  <2>3. CASE wit.reduction[1] = 1
    <3>1. v[1] = 0
      BY <2>1, <2>3
    <3>2. v[2] \in Int /\ v[1] = 0 /\ wit' = [wit EXCEPT !.reduction = v]
      BY <1>2, <1>7, <2>1, <3>1
    <3> HIDE DEF v
    <3>3. QED
      BY <1>6, <3>2
  <2>4. QED
    BY <1>3, <2>2, <2>3
<1>8. CASE \/ wit' = [wit EXCEPT !.reduction = <<0, wit.final[1]>>]
           \/ wit' = [wit EXCEPT !.reduction = <<0, input.r>>]
  <2>1. wit.final[1] \in Int /\ input.r \in Int
    BY <1>0, <1>1 DEF x, Parsed
  <2>2. \A y : <<0, y>>[1] = 0 /\ <<0, y>>[2] = y
    OBVIOUS
  <2>3. PICK y \in Int : wit' = [wit EXCEPT !.reduction = <<0, y>>]
    BY <1>8, <2>1
  <2> DEFINE v == <<0, y>>
  <2>4. wit' = [wit EXCEPT !.reduction = v] /\ v[1] = 0 /\ v[2] \in Int
    BY <2>2, <2>3
  <2> HIDE DEF v
  <2>5. QED
    BY <1>6, <2>4
<1>9. CASE \E pt \in OtherPoints(wit.final) : wit' = [wit EXCEPT !.final = pt]
  <2>1. PICK pt \in OtherPoints(wit.final) : wit' = [wit EXCEPT !.final = pt]
    BY <1>9
  <2>2. pt \in Pairs
    BY <1>1, OtherPairs
  <2>3. /\ WitnessSlots' /\ wit'.final = pt /\ wit'.corrected = wit.corrected
        /\ wit'.denominv = wit.denominv /\ wit'.reduction = wit.reduction
    BY <2>1 DEF WitnessSlots
  <2>4. QED
    BY <1>2, <1>3, <2>2, <2>3 DEF Loose
<1>10. CASE \E i \in 1 .. 2 : \E pt \in OtherPoints(wit.corrected[i]) :
               wit' = [wit EXCEPT !.corrected = [wit.corrected EXCEPT ![i] = pt]]
  <2>1. PICK i \in 1 .. 2 : \E pt \in OtherPoints(wit.corrected[i]) :
               wit' = [wit EXCEPT !.corrected = [wit.corrected EXCEPT ![i] = pt]]
    BY <1>10
  <2>2. PICK pt \in OtherPoints(wit.corrected[i]) :
               wit' = [wit EXCEPT !.corrected = [wit.corrected EXCEPT ![i] = pt]]
    BY <2>1
  <2>3. i = 1 \/ i = 2
    OBVIOUS
  <2>4. wit.corrected[i] \in Affine
    BY <1>1, <2>3
  <2>5. pt \in Pairs
    BY <2>4, OtherPairs
  <2> DEFINE c == [wit.corrected EXCEPT ![i] = pt]
  <2>6. c = <<c[1], c[2]>> /\ c[1] \in Pairs /\ c[2] \in Pairs
    <3>1. CASE i = 1
      <4>1. c = <<pt, wit.corrected[2]>>
        BY <1>2, <3>1
      <4> HIDE DEF c
      <4>2. QED
        BY <1>2, <2>5, <4>1
    <3>2. CASE i = 2
      <4>1. c = <<wit.corrected[1], pt>>
        BY <1>2, <3>2
      <4> HIDE DEF c
      <4>2. QED
        BY <1>2, <2>5, <4>1
    <3>3. QED
      BY <2>3, <3>1, <3>2
  <2>7. wit' = [wit EXCEPT !.corrected = c]
    BY <2>2
  <2> HIDE DEF c
  <2>8. /\ WitnessSlots' /\ wit'.final = wit.final /\ wit'.corrected = c
        /\ wit'.denominv = wit.denominv /\ wit'.reduction = wit.reduction
    BY <2>7 DEF WitnessSlots
  <2>9. QED
    BY <1>2, <1>3, <2>6, <2>8 DEF Loose
<1>11. \/ wit' = [wit EXCEPT !.sinv = (@ + 1) % P] \/ wit' = [wit EXCEPT !.denominv = (@ + 1) % P]
       \/ wit' = [wit EXCEPT !.flags[1] = 1] \/ wit' = [wit EXCEPT !.limbs[1][1] = @ + 1]
       \/ wit' = [wit EXCEPT !.reduction = <<1 - @[1], @[2]>>]
       \/ wit' = [wit EXCEPT !.reduction = <<0, wit.final[1]>>]
       \/ wit' = [wit EXCEPT !.reduction = <<0, input.r>>]
       \/ \E i \in 1 .. 2 : wit' = [wit EXCEPT !.u[i] = (@ + 1) % P]
       \/ \E i \in 1 .. 3 : wit' = [wit EXCEPT !.quotients[i] = (@ + 1) % P]
       \/ \E pt \in OtherPoints(wit.final) : wit' = [wit EXCEPT !.final = pt]
       \/ \E pt \in OtherPoints(wit.corrected[1]) : wit' = [wit EXCEPT !.corrected[1] = pt]
       \/ \E pt \in OtherPoints(wit.corrected[2]) : wit' = [wit EXCEPT !.corrected[2] = pt]
       \/ \E pt \in OtherPoints(wit.g[1]) : wit' = [wit EXCEPT !.g[1] = pt]
  BY Zenon DEF Variants
<1>12. CASE \/ \E pt \in OtherPoints(wit.corrected[1]) : wit' = [wit EXCEPT !.corrected[1] = pt]
            \/ \E pt \in OtherPoints(wit.corrected[2]) : wit' = [wit EXCEPT !.corrected[2] = pt]
  <2>1. 1 \in 1 .. 2 /\ 2 \in 1 .. 2
    OBVIOUS
  <2>2. QED
    BY <1>10, <1>12, <2>1, Zenon
<1>13. QED
  BY <1>4, <1>5, <1>7, <1>8, <1>9, <1>11, <1>12, Zenon

LEMMA AlterKeeps == WitnessInv /\ Alter => WitnessInv'
<1> SUFFICES ASSUME WitnessInv, Alter PROVE WitnessInv'
  OBVIOUS
<1>1. /\ phase = "made" /\ ~altered /\ native = "none" /\ circuits = "none"
      /\ wit' \in Variants /\ altered' = (wit' # wit)
      /\ UNCHANGED <<phase, input, ladder, verdict, native, circuits>>
  BY DEF Alter
<1>2. WitnessShape /\ WitnessSlots /\ Parsed(input) /\ Generated /\ Loose
  BY <1>1 DEF WitnessInv, Progress, WitnessShape
<1>3. WitnessSlots' /\ Loose'
  BY <1>1, <1>2, VariantLoose
<1>4. altered' \in BOOLEAN /\ (~altered' => wit' = wit)
  BY <1>1
<1>5. WitnessShape'
  BY <1>1, <1>2, <1>3, <1>4 DEF WitnessShape, Early
<1>6. ~altered' => Generated'
  BY <1>1, <1>2, <1>4
     DEF Generated, ScalarsMade, FinalMade, WalksMade, EndpointsMade
<1>7. Progress'
  BY <1>1, <1>2, <1>3, <1>6 DEF Progress
<1>8. CircuitsReadR' /\ NativeReadsR' /\ NativeIsEcdsa' /\ CircuitsAgreeWithNative' /\ CircuitsBindFinal'
  BY <1>1 DEF CircuitsReadR, NativeReadsR, NativeIsEcdsa, CircuitsAgreeWithNative, CircuitsBindFinal
<1>9. OnlyExceptionalRefused'
  BY <1>1 DEF WitnessInv, OnlyExceptionalRefused
<1>10. QED
  BY <1>5, <1>7, <1>8, <1>9 DEF WitnessInv

(* What a step that leaves the witness and the phase alone keeps. *)
LEMMA CheckKeepsShape ==
    ASSUME WitnessInv, phase = "made", UNCHANGED <<phase, input, wit, ladder, altered, verdict>>
    PROVE  WitnessShape' /\ Progress' /\ OnlyExceptionalRefused'
<1>1. /\ WitnessShape /\ WitnessSlots /\ Parsed(input) /\ Loose /\ (~altered => Generated)
      /\ OnlyExceptionalRefused
  BY DEF WitnessInv, Progress, WitnessShape
<1>2. WitnessSlots' /\ Loose'
  BY <1>1 DEF WitnessSlots, Loose
<1>3. ~altered' => Generated'
  BY <1>1 DEF Generated, ScalarsMade, FinalMade, WalksMade, EndpointsMade
<1>4. WitnessShape'
  BY <1>1, <1>2 DEF WitnessShape, Early
<1>5. Progress'
  BY <1>1, <1>2, <1>3 DEF Progress
<1>6. OnlyExceptionalRefused'
  BY <1>1 DEF OnlyExceptionalRefused
<1>7. QED
  BY <1>4, <1>5, <1>6

LEMMA CheckNativeKeeps == WitnessInv /\ CheckNative => WitnessInv'
<1> SUFFICES ASSUME WitnessInv, CheckNative PROVE WitnessInv'
  OBVIOUS
<1>1. /\ phase = "made" /\ native = "none"
      /\ native' = IF altered THEN "ConstraintViolation"
                   ELSE IF wit.reduction[2] # input.r THEN "FinalReduction" ELSE "ok"
      /\ UNCHANGED <<phase, input, wit, ladder, altered, verdict, circuits>>
  BY DEF CheckNative
<1>2. WitnessShape' /\ Progress' /\ OnlyExceptionalRefused'
  BY <1>1, CheckKeepsShape
<1>3. altered \in BOOLEAN /\ (~altered => FinalMade) /\ CircuitsReadR /\ CircuitsBindFinal
  BY <1>1 DEF WitnessInv, WitnessShape, Progress, Generated
<1>4. NativeReadsR' /\ CircuitsReadR'
  BY <1>1, <1>3 DEF NativeReadsR, CircuitsReadR
<1>5. ~altered => (ValidSignature(input) <=> wit.reduction[2] = input.r)
  BY <1>3, GeneratedSignature
<1>6. NativeIsEcdsa'
  <2>1. native' = "ok" <=> ~altered /\ wit.reduction[2] = input.r
    BY <1>1
  <2>2. native' = "ok" <=> ~altered /\ ValidSignature(input)
    BY <1>5, <2>1
  <2>3. ValidSignature(input)' = ValidSignature(input)
    BY <1>1 DEF ValidSignature, ScalarU
  <2>4. QED
    BY <1>1, <2>2, <2>3 DEF NativeIsEcdsa
<1>7. CircuitsAgreeWithNative'
  BY <1>1, <1>4 DEF CircuitsAgreeWithNative, NativeReadsR, CircuitsReadR
<1>8. CircuitsBindFinal'
  BY <1>1, <1>3 DEF CircuitsBindFinal
<1>9. QED
  BY <1>2, <1>4, <1>6, <1>7, <1>8 DEF WitnessInv

LEMMA CheckCircuitsKeeps == WitnessInv /\ CheckCircuits => WitnessInv'
<1> SUFFICES ASSUME WitnessInv, CheckCircuits PROVE WitnessInv'
  OBVIOUS
<1>1. /\ phase = "made" /\ circuits = "none" /\ circuits' = CircuitVerdict
      /\ UNCHANGED <<phase, input, wit, ladder, altered, verdict, native>>
  BY DEF CheckCircuits
<1>2. WitnessShape' /\ Progress' /\ OnlyExceptionalRefused'
  BY <1>1, CheckKeepsShape
<1>3. /\ Parsed(input) /\ Loose /\ (~altered => Generated) /\ NativeReadsR /\ NativeIsEcdsa
  BY <1>1 DEF WitnessInv, Progress
<1>4. ~altered => (CircuitVerdict = "ok" <=> wit.reduction[2] = input.r)
  BY <1>3, GeneratedVerdict
<1>5. CircuitVerdict = "ok" => BoundFinal
  BY <1>3, AcceptedBinds
<1>6. NativeReadsR' /\ CircuitsReadR'
  BY <1>1, <1>3, <1>4 DEF NativeReadsR, CircuitsReadR
<1>7. NativeIsEcdsa'
  <2>1. ValidSignature(input)' = ValidSignature(input)
    BY <1>1 DEF ValidSignature, ScalarU
  <2>2. QED
    BY <1>1, <1>3, <2>1 DEF NativeIsEcdsa
<1>8. CircuitsAgreeWithNative'
  BY <1>1, <1>6 DEF CircuitsAgreeWithNative, NativeReadsR, CircuitsReadR
<1>9. CircuitsBindFinal'
  <2>1. circuits' = "ok" => BoundFinal'
    BY <1>1, <1>5 DEF BoundFinal
  <2>2. QED
    BY <2>1 DEF BoundFinal, CircuitsBindFinal
<1>10. QED
  BY <1>2, <1>6, <1>7, <1>8, <1>9 DEF WitnessInv

LEMMA FinishKeeps == WitnessInv /\ Finish => WitnessInv'
<1> SUFFICES ASSUME WitnessInv, Finish PROVE WitnessInv'
  OBVIOUS
<1>1. /\ phase' = "done" /\ UNCHANGED <<input, wit, ladder, altered, verdict, native, circuits>>
  BY DEF Finish
<1>2. WitnessShape /\ WitnessSlots
  BY DEF WitnessInv, WitnessShape
<1>3. WitnessShape'
  BY <1>1, <1>2 DEF WitnessShape, WitnessSlots, Early
<1>4. Progress' /\ CircuitsReadR' /\ NativeReadsR'
  BY <1>1 DEF Progress, CircuitsReadR, NativeReadsR
<1>5. OnlyExceptionalRefused' /\ CircuitsAgreeWithNative'
  BY <1>1 DEF WitnessInv, OnlyExceptionalRefused, CircuitsAgreeWithNative
<1>6. NativeIsEcdsa'
  <2>1. ValidSignature(input)' = ValidSignature(input)
    BY <1>1 DEF ValidSignature, ScalarU
  <2>2. QED
    BY <1>1, <2>1 DEF WitnessInv, NativeIsEcdsa
<1>7. CircuitsBindFinal'
  BY <1>1 DEF WitnessInv, CircuitsBindFinal
<1>8. QED
  BY <1>3, <1>4, <1>5, <1>6, <1>7 DEF WitnessInv

(* A step that changes nothing. *)
LEMMA WitnessStutter == WitnessInv /\ UNCHANGED witnessVars => WitnessInv'
<1> SUFFICES ASSUME WitnessInv, UNCHANGED witnessVars PROVE WitnessInv'
  OBVIOUS
<1>1. UNCHANGED <<phase, input, wit, ladder, altered, verdict, native, circuits>>
  BY DEF witnessVars
<1>2. WitnessShape' /\ CircuitsReadR' /\ NativeReadsR' /\ CircuitsAgreeWithNative'
  BY <1>1 DEF WitnessInv, WitnessShape, WitnessSlots, Early, CircuitsReadR, NativeReadsR,
              CircuitsAgreeWithNative
<1>3. /\ Parsed(input)' = Parsed(input) /\ ScalarsMade' = ScalarsMade /\ FinalMade' = FinalMade
      /\ WalksMade' = WalksMade /\ EndpointsMade' = EndpointsMade /\ LadderMade' = LadderMade
      /\ Loose' = Loose /\ Exceptional(input)' = Exceptional(input)
      /\ ValidSignature(input)' = ValidSignature(input)
  <2>1. Parsed(input)' = Parsed(input) /\ ScalarsMade' = ScalarsMade
    BY <1>1 DEF Parsed, ScalarsMade
  <2>2. FinalMade' = FinalMade /\ WalksMade' = WalksMade /\ EndpointsMade' = EndpointsMade
    BY <1>1 DEF FinalMade, WalksMade, EndpointsMade
  <2>3. LadderMade' = LadderMade
    BY <1>1 DEF LadderMade, ScalarOf, Base
  <2>4. Loose' = Loose
    BY <1>1 DEF Loose
  <2>5. Exceptional(input)' = Exceptional(input) /\ ValidSignature(input)' = ValidSignature(input)
    BY <1>1 DEF Exceptional, ValidSignature
  <2>6. QED
    BY <2>1, <2>2, <2>3, <2>4, <2>5
<1>4. Progress'
  BY <1>1, <1>3 DEF WitnessInv, Progress, Generated
<1>5. OnlyExceptionalRefused' /\ NativeIsEcdsa'
  BY <1>1, <1>3 DEF WitnessInv, OnlyExceptionalRefused, NativeIsEcdsa
<1>6. CircuitsBindFinal'
  BY <1>1 DEF WitnessInv, CircuitsBindFinal
<1>7. QED
  BY <1>2, <1>4, <1>5, <1>6 DEF WitnessInv

(* What the properties rest on: a witness being generated holds, slot by   *)
(* slot, what the scalars and the multiples of the points say it should,   *)
(* and an altered one holds field elements (generate_witness,              *)
(* write_ladder_accumulators, verify_witness, verify_implemented_circuits).*)
THEOREM WitnessInvariant == WitnessSpec => []WitnessInv
<1>1. WitnessInit => WitnessInv
  BY WitnessInitInv
<1>2. WitnessInv /\ [WitnessNext]_witnessVars => WitnessInv'
  <2> SUFFICES ASSUME WitnessInv, [WitnessNext]_witnessVars PROVE WitnessInv'
    OBVIOUS
  <2>1. CASE Parse
    BY <2>1, ParseKeeps
  <2>2. CASE Scalars
    BY <2>2, ScalarsKeeps
  <2>3. CASE FinalPoint
    BY <2>3, FinalPointKeeps
  <2>4. CASE LadderStep
    BY <2>4, LadderStepKeeps
  <2>5. CASE NextLadder
    BY <2>5, NextLadderKeeps
  <2>6. CASE Endpoints
    BY <2>6, EndpointsKeeps
  <2>7. CASE Alter
    BY <2>7, AlterKeeps
  <2>8. CASE CheckNative
    BY <2>8, CheckNativeKeeps
  <2>9. CASE CheckCircuits
    BY <2>9, CheckCircuitsKeeps
  <2>10. CASE Finish
    BY <2>10, FinishKeeps
  <2>11. CASE Done
    BY <2>11, WitnessStutter DEF Done
  <2>12. CASE UNCHANGED witnessVars
    BY <2>12, WitnessStutter
  <2>13. QED
    BY <2>1, <2>2, <2>3, <2>4, <2>5, <2>6, <2>7, <2>8, <2>9, <2>10, <2>11, <2>12
       DEF WitnessNext
<1>3. QED
  BY <1>1, <1>2, PTL DEF WitnessSpec

(* generate_witness refuses a well-formed input as ExceptionalTrace only   *)
(* when a walk or the final addition meets a case the incomplete formulas  *)
(* leave out, and makes a witness for every other.                         *)
THEOREM OnlyExceptionalInputsRefused == WitnessSpec => []OnlyExceptionalRefused
<1>1. WitnessInv => OnlyExceptionalRefused
  BY DEF WitnessInv
<1>2. QED
  BY <1>1, WitnessInvariant, PTL

(* verify_witness accepts exactly the generated witnesses of signatures    *)
(* that ECDSA's own verification accepts.                                  *)
THEOREM NativeCheckIsEcdsa == WitnessSpec => []NativeIsEcdsa
<1>1. WitnessInv => NativeIsEcdsa
  BY DEF WitnessInv
<1>2. QED
  BY <1>1, WitnessInvariant, PTL

(* On a generated witness verify_implemented_circuits and verify_witness   *)
(* answer alike.                                                           *)
THEOREM CircuitsAgree == WitnessSpec => []CircuitsAgreeWithNative
<1>1. WitnessInv => CircuitsAgreeWithNative
  BY DEF WitnessInv
<1>2. QED
  BY <1>1, WitnessInvariant, PTL

(* Of a witness with one slot altered the circuits accept none whose final *)
(* point is off the curve, is not the sum of its endpoints, or has an x    *)
(* that does not reduce to r.                                              *)
THEOREM AcceptedFinalIsBound == WitnessSpec => []CircuitsBindFinal
<1>1. WitnessInv => CircuitsBindFinal
  BY DEF WitnessInv
<1>2. QED
  BY <1>1, WitnessInvariant, PTL
=============================================================================
