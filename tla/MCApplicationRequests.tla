----------------------- MODULE MCApplicationRequests -----------------------
(***************************************************************************)
(* Requests that overlap, over two versions of a line, p1 and p2, of the   *)
(* same one stage: an upgrade leads from p1 to p2, and a change of process *)
(* back.                                                                   *)
(***************************************************************************)
EXTENDS ApplicationRequests

OneApp  == {"a1"}
OneCandidate == {"c1"}
AppOfC1  == [a \in OneApp |-> "c1"]
OnePosition  == [a \in OneApp |-> "eng"]
None == {}
OneWorker == {"w1"}

Procs == {"p1", "p2"}
ProcStages == {"SCREEN"}
ProcLinks == {"screen1", "screen2"}
LinkProcess == [screen1 |-> "p1", screen2 |-> "p2"]
LinkStage == [screen1 |-> "SCREEN", screen2 |-> "SCREEN"]
LinkOrder == [screen1 |-> 2, screen2 |-> 1]
LinkRank == [screen1 |-> 1, screen2 |-> 2]
Codes == [p1 |-> "LINE", p2 |-> "LINE"]
Seqs == [p1 |-> 1, p2 |-> 2]
NewVersion == {"p2"}
=============================================================================
