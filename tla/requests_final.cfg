SPECIFICATION RSpec
CONSTANTS
  Processes <- Procs
  Links <- ProcLinks
  Stages <- ProcStages
  ProcessOf <- LinkProcess
  StageOf <- LinkStage
  Order <- LinkOrder
  Rank <- LinkRank
  Required <- ProcLinks
  Schedulable <- None
  LineOf <- Codes
  SeqOf <- Seqs
  Latest <- NewVersion
  Archived <- None
  Apps <- OneApp
  Candidates <- OneCandidate
  Users <- None
  SuperAdmins <- None
  Nobody = "nobody"
  NoLink = "null"
  CandidateOf <- AppOfC1
  PositionOf <- OnePosition
  SoftRejectThreshold = 1
  Workers <- OneWorker
  Idle = Idle
PROPERTIES TerminalIsFinal
