-------------------------- MODULE MCProcessCaches --------------------------
(* Small processes for TLC: default-build module sets, whose ids determine *)
(* their content, and legacy-build ones, whose schedule columns keep one   *)
(* id while their content follows the signature.                           *)
EXTENDS ProcessCaches

CONSTANTS t1, t2, t3

MCThreads == {t1, t2, t3}
MCTwoThreads == {t1, t2}

\* Two shapes of the default pipeline; the second one needs larger twiddles.
MCModuleSets ==
    { [shape |-> "shapeA", content |-> "tablesA", logSize |-> 1],
      [shape |-> "shapeB", content |-> "tablesB", logSize |-> 2],
      [shape |-> "shapeC", content |-> "tablesC", logSize |-> 1] }

MCKinds == {"cached", "uncached", "prove"}

\* One shape whose schedule columns follow the witness.
LegacyModuleSets ==
    { [shape |-> "p256", content |-> "schedule of signature 1", logSize |-> 1],
      [shape |-> "p256", content |-> "schedule of signature 2", logSize |-> 1] }

\* identity_expected_preprocessed_root calls the cached variant.
LegacyKinds == {"cached"}
=============================================================================
