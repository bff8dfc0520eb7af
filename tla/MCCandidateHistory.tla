------------------------- MODULE MCCandidateHistory -------------------------
(***************************************************************************)
(* Small instances of CandidateHistory: a hash is the tuple of what is     *)
(* hashed.                                                                 *)
(***************************************************************************)
EXTENDS CandidateHistory, TLC

CONSTANTS c1, c2, t1, t2, d1, scrubbed

HashOf(c, seq, detail, prev) == <<c, seq, detail, prev>>
Symmetry == Permutations(Transactions)
=============================================================================
