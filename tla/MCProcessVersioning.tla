------------------------ MODULE MCProcessVersioning ------------------------
(***************************************************************************)
(* Two requests at once over at most four rows: a line of three versions   *)
(* and a second line, or two of two.  Row ids and workers are              *)
(* interchangeable: no property and no action tells them apart.            *)
(***************************************************************************)
EXTENDS ProcessVersioning, TLC

CONSTANTS r1, r2, r3, r4, w1, w2

FourRows == {r1, r2, r3, r4}
TwoWorkers == {w1, w2}
OneCode == {1}
Interchangeable == Permutations(FourRows) \cup Permutations(TwoWorkers)
=============================================================================
