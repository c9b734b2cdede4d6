--------------------------- MODULE MCScalarSetup ----------------------------
(***************************************************************************)
(* Inputs of ScalarSetup for an order of 491, written with three limbs of  *)
(* four bits: r and s at both ends of their range and outside of it,       *)
(* digests at zero, around the order and at the top.                       *)
(***************************************************************************)
EXTENDS ScalarSetup

Case(z, r, s, follow) == [z |-> z, r |-> r, s |-> s, follow |-> follow]

Outside ==
    {Case(77, r, s, 0) : r \in {0, N, N + 16, 5}, s \in {0, N, 4095}} \cup
    {Case(77, r, 33, 0) : r \in {0, N, N + 16}}

Plain ==
    {Case(0, 1, 1, 0), Case(N - 1, N - 1, N - 1, 0), Case(N, 17, 255, 0), Case(N + 5, 240, 16, 0),
     Case(511, 490, 2, 0), Case(256, 100, 490, 0), Case(255, 3, 241, 0)}

Followed ==
    {Case(0, 30, 7, 1), Case(N, 12, 9, 1), Case(300, 77, 130, 1), Case(1, 490, 490, 1),
     Case(33, 29, 31, 1), Case(495, 77, 131, 2), Case(8, 200, 200, 2), Case(100, 490, 17, 2)}

AllInputs == Outside \cup Plain \cup Followed
=============================================================================
