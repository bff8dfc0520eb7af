SPECIFICATION Spec
CONSTANTS
  Processes <- Line
  Links <- LineLinks
  Stages <- LineStages
  ProcessOf <- LineProcessOf
  StageOf <- LineStageOf
  Order <- LineOrder
  Rank <- LineOrder
  Required <- LineRequired
  Schedulable <- LineSchedulable
  LineOf <- LineCode
  SeqOf <- LineSeq
  Latest <- Line
  Archived <- NoProcess
  Apps <- OneApp
  Candidates <- OneCandidate
  Users <- HrAndBoss
  SuperAdmins <- Boss
  Nobody = "nobody"
  NoLink = "null"
  CandidateOf <- AppOfC1
  PositionOf <- OnePosition
  SoftRejectThreshold = 3
INVARIANTS TypeOK OpenOnlyAtCurrent LiveHasRecord NothingOpenAfterEnd OfferAtTheEnd
PROPERTIES PassedVerdictKept ClaimNotStolen TerminalIsFinal
CHECK_DEADLOCK FALSE
