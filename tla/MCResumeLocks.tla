---------------------------- MODULE MCResumeLocks ----------------------------
(***************************************************************************)
(* Small instances of ResumeLocks: one candidate, one position;            *)
(* requests are interchangeable.                                           *)
(***************************************************************************)
EXTENDS ResumeLocks, TLC

CONSTANTS c1, p1, u1, u2, w1, w2

Symmetry == Permutations(Workers)
=============================================================================
