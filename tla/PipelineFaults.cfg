CONSTANTS
  r1 = r1
  p1 = p1
  sha = sha
  u = u
  v = v
  w = w
  t1 = t1
  t2 = t2
  None = None
  Runs <- OneRun
  Replays <- OneReplay
  ReplayOf <- OfFirst
  SampleOf <- OneSample
  Stages <- TriageCape
  HardTimeout = 1
  MaxFaults = 2
  Ingests = {0, 1, 2}
  Older = {0}
  SampleIn <- Sample
  Items <- Crossing
  Similar = {}
  MaxFreq = 2
  Malformed <- Complaints
  Cleaned <- Cleanings
  MaxWarnings = 2
  MaxTroubles = 1
  MaxDeletes = 1
  Nobody = Nobody
  NoValue = NoValue
  Parts = {"rows", "enrichment"}
SPECIFICATION MCSpec
INVARIANTS GroupsAccounted EdgesFound
PROPERTIES OrphansReconciled Settled IngestEnds
CHECK_DEADLOCK FALSE
