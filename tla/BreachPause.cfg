CONSTANTS
  x = x
  y = y
  Absent = Absent
  Torn = Torn
  NoGuest = NoGuest
  Watched = {"breach_internet"}
  MaxDetail = 1
  MaxChanges = 0
  MaxPackets = 1
  MaxCuts = 0
  MaxOutages = 0
  MaxAlerts = 0
  BadNames = {}
  Malformed = {}
  MaxPerRun = 2
  RelayLimit = 2
  MaxKills = 0
  Batch <- TwoSamples
  MaxBatchStarts = 1
  MaxPauses = 0
  RunsAsked = 1
  MaxBatches = 0
  Pinned = "clean"
  Guests = {"clean"}
  Tiers = {"CLEAN"}
SPECIFICATION Spec
PROPERTIES BreachPauses
CHECK_DEADLOCK FALSE
