--------------------------- MODULE MCSha256Trace ----------------------------
(***************************************************************************)
(* Messages of one to three blocks in traces of two or four, blocks of     *)
(* four rows, and the exposures that take both paths of the field          *)
(* provider: none, block 0 alone, a later block, several, and one beyond   *)
(* the message.                                                            *)
(***************************************************************************)
EXTENDS Sha256Trace

CONSTANTS x, y

MCRounds == 4
MCMessageRow == 2
MCBlocks == {x, y}
MCMessages == {<<x>>, <<x, y>>, <<y, y, x>>}
MCExposures == {{}, {0}, {1}, {0, 2}, {3}}
MCSizes == {1, 2, 4}
MCHashes == {<<y>>, <<x, y>>}
MCCounters == {0, 1}
=============================================================================
