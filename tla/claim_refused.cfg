SPECIFICATION CSpec
CONSTANTS
  Processes <- MoveProcesses
  Links <- MoveLinks
  Stages <- MoveStages
  ProcessOf <- MoveProcessOf
  StageOf <- MoveStageOf
  Order <- MoveOrder
  Rank <- MoveRank
  Required <- MoveLinks
  Schedulable <- None
  LineOf <- MoveLine
  SeqOf <- MoveSeq
  Latest <- MoveLatest
  Archived <- None
  Apps <- OneApp
  Candidates <- OneCandidate
  Users <- None
  SuperAdmins <- None
  Nobody = "nobody"
  NoLink = "null"
  CandidateOf <- AppOfC1
  PositionOf <- OnePosition
  SoftRejectThreshold = 3
INVARIANTS RefusedIsRejected
CHECK_DEADLOCK FALSE
