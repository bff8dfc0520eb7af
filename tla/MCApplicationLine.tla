------------------------- MODULE MCApplicationLine -------------------------
(***************************************************************************)
(* One process of three stages, the middle one optional and schedulable.   *)
(* For what holds while an application stays in its process.               *)
(***************************************************************************)
EXTENDS ApplicationRefinement, TLC

OneApp  == {"a1"}
OneCandidate == {"c1"}
BothOfC1 == [a \in Apps |-> "c1"]
AppOfC1  == [a \in OneApp |-> "c1"]
SamePosition == [a \in Apps |-> "eng"]
OnePosition  == [a \in OneApp |-> "eng"]

OneUser == {"hr"}
HrAndBoss == {"hr", "boss"}
Boss == {"boss"}
NoSuper == {}

Line == {"p1"}
LineStages == {"SCREEN", "MEET", "FINAL"}
LineLinks == {"screen", "meet", "final"}
LineProcessOf == [l \in LineLinks |-> "p1"]
LineStageOf == [screen |-> "SCREEN", meet |-> "MEET", final |-> "FINAL"]
LineOrder == [screen |-> 1, meet |-> 2, final |-> 3]
LineRequired == {"screen", "final"}
LineSchedulable == {"MEET"}
LineCode == [p \in Line |-> "LINE"]
LineSeq == [p \in Line |-> 1]
NoProcess == {}

(* A process of one stage, for the applications of one candidate.          *)
ShortStages == {"SCREEN"}
ShortLinks == {"screen"}
ShortProcessOf == [screen |-> "p1"]
ShortStageOf == [screen |-> "SCREEN"]
ShortOrder == [screen |-> 1]

(* The applications differ in nothing but their names.                     *)
Twins == Permutations(Apps)
=============================================================================
