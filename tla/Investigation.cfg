CONSTANTS
  m1 = m1
  m2 = m2
  m3 = m3
  a = a
  b = b
  Requests <- Messages
  MaxTurns = 2
  MaxToolCalls = 3
  MaxBlocks = 2
  Pieces = 2
  None = None
  Expired = Expired
  Sessions = {1, 2}
  Asked <- Lines
  SessionTurns = 2
  MaxMounts = 2
  Nobody = Nobody
  NoData = NoData
  Idle = Idle
  Awaited = Awaited
  Parts = {"turns", "reopened", "tabs", "ends"}
SPECIFICATION MCSpec
INVARIANTS TotalsHonest AnswerKept ToolsAsAsked NoGapInView QuietShows
SYMMETRY Symmetry
CHECK_DEADLOCK FALSE
