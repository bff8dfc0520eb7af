SPECIFICATION Spec
CONSTANTS
  Processes <- Line
  Links <- ShortLinks
  Stages <- ShortStages
  ProcessOf <- ShortProcessOf
  StageOf <- ShortStageOf
  Order <- ShortOrder
  Rank <- ShortOrder
  Required <- ShortLinks
  Schedulable <- NoProcess
  LineOf <- LineCode
  SeqOf <- LineSeq
  Latest <- Line
  Archived <- NoProcess
  Apps = {a1, a2, a3}
  Candidates <- OneCandidate
  Users <- NoSuper
  SuperAdmins <- NoSuper
  Nobody = "nobody"
  NoLink = "null"
  CandidateOf <- BothOfC1
  PositionOf <- SamePosition
  SoftRejectThreshold = 3
INVARIANTS OneLivePerPosition StartedMeansEntered WithdrawnTogether
PROPERTIES ThresholdPools KeepsPromise
SYMMETRY Twins
CHECK_DEADLOCK FALSE
