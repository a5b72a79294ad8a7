CONSTANTS
  Budget = 8
  Grace = 4
  Reserve = 3
  ToolTime = 2
  RequestTime = 2
  SynthTime = 3
  MaxToolCalls = 4
  PerTurn = 2
  MaxBlocks = 4
  MaxFaults = 2
  Settings <- Deployed
  Cloud = {"sonnet", "opus"}
  Local = {"qwen"}
  Listed = {"sonnet", "opus", "qwen", "eval-opus"}
  Threshold = 2
  ToolLimit = 4
  TurnLimit = 2
  NoUsage = NoUsage
  Silent = Silent
  Parts = {"call", "agent", "corpus", "sweep"}
  qwen = qwen
  opus = opus
  wrapper = wrapper
  payload = payload
  LastReport = 3
  Projects = {"top", "sub"}
  Outside = Outside
  NoProgram = NoProgram
  Shapes <- ReportShapes
  ByHand = 1
  MaxKeep = 1
  MaxPromotions = 2
  Stub = Stub
  Arms <- TwoArms
  MaxVariant = 1
  MaxSweeps = 2
  MaxRuns = 2
  NoResult = NoResult
  NoScore = NoScore
SPECIFICATION MCSpec
INVARIANTS WellFormed FinalUsed AnsweredInTime LegServes ResultHonest CorpusServes ScoredOnOwn
PROPERTIES Returns
CHECK_DEADLOCK FALSE
