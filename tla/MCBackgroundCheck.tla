------------------------- MODULE MCBackgroundCheck -------------------------
(***************************************************************************)
(* Small instances of BackgroundCheck: one order, two handlers, a supplier *)
(* that completes the order or takes it back after an interim report.      *)
(***************************************************************************)
EXTENDS BackgroundCheck

CONSTANTS o1, h1, h2

Completed == <<{"IN_PROGRESS"}, {"COMPLETED"}>>
TakenBack == <<{"IN_PROGRESS"}, {"STAGE_REPORT", "COMPLETED"}, {"IN_PROGRESS"}>>
=============================================================================
