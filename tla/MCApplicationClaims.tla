------------------------- MODULE MCApplicationClaims -------------------------
(***************************************************************************)
(* The smallest catalogue that refutes the statement of ApplicationClaims: *)
(* two versions of a line, of two stages each.                             *)
(***************************************************************************)
EXTENDS ApplicationClaims

OneApp  == {"a1"}
OneCandidate == {"c1"}
AppOfC1  == [a \in OneApp |-> "c1"]
OnePosition  == [a \in OneApp |-> "eng"]
None == {}

MoveProcesses == {"v1", "v2"}
MoveStages == {"SCREEN", "FINAL"}
MoveLinks == {"screen1", "final1", "screen2", "final2"}
MoveProcessOf == [screen1 |-> "v1", final1 |-> "v1",
                  screen2 |-> "v2", final2 |-> "v2"]
MoveStageOf == [screen1 |-> "SCREEN", final1 |-> "FINAL",
                screen2 |-> "SCREEN", final2 |-> "FINAL"]
MoveOrder == [screen1 |-> 1, final1 |-> 2, screen2 |-> 1, final2 |-> 2]
MoveRank == [screen1 |-> 1, final1 |-> 2, screen2 |-> 3, final2 |-> 4]
MoveLine == [p \in MoveProcesses |-> "LINE"]
MoveSeq == [v1 |-> 1, v2 |-> 2]
MoveLatest == {"v2"}
=============================================================================
