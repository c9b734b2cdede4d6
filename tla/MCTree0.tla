------------------------------ MODULE MCTree0 ------------------------------
(* Every composition of up to three small modules over two ids and three   *)
(* columns, of which two share a size and two share data.                  *)
EXTENDS Tree0, SequencesExt

CONSTANTS id1, id2

MCIds == {id1, id2}
MCColumns == { [size |-> 1, data |-> "zeros"],
               [size |-> 1, data |-> "ones"],
               [size |-> 2, data |-> "zeros"] }
MCHash == [d \in {"zeros", "ones"} |-> IF d = "zeros" THEN 0 ELSE 1]

MCModulesOfLength(n) ==
    [ids : [1 .. n -> MCIds], columns : [1 .. n -> MCColumns], partial : BOOLEAN,
     exposes : BOOLEAN]
MCUpTo(n) == UNION {MCModulesOfLength(k) : k \in 0 .. n}

\* Two modules of up to two columns, or three of up to one.
MCCompositions ==
    UNION {[1 .. n -> MCUpTo(2)] : n \in 1 .. 2} \cup [1 .. 3 -> MCUpTo(1)]

Symmetry == Permutations(MCIds)
=============================================================================
