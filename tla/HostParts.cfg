CONSTANTS
  x = x
  y = y
  Absent = Absent
  Torn = Torn
  NoGuest = NoGuest
  Parts = {"monitor", "relay", "intake", "detonate", "ghidra"}
  Watched = {"breach_internet", "inetsim_dns"}
  MaxDetail = 2
  MaxChanges = 2
  MaxPackets = 1
  MaxCuts = 1
  MaxOutages = 1
  MaxAlerts = 4
  BadNames = {1}
  Malformed = {2}
  MaxPerRun = 2
  RelayLimit = 2
  MaxKills = 1
  Batch <- TwoSamples
  MaxBatchStarts = 3
  MaxPauses = 1
  RunsAsked = 2
  MaxBatches = 2
  Pinned = "clean"
  Guests = {"clean", "office"}
  Tiers = {"CLEAN", "PARTIAL"}
  Givens <- ThreeStages
  MaxPes = 2
  MaxFunctions = 2
  NoFile = NoFile
  NoProject = NoProject
  Hollow = Hollow
  Partial = Partial
SPECIFICATION MCSpec
INVARIANTS AnnouncedOrRepeat Accounted BatchHonest ScorecardSound ReadsItsProgram
PROPERTIES Reminded
CHECK_DEADLOCK FALSE
