CONSTANTS
  u1 = u1
  u2 = u2
  s1 = s1
  link = link
  None = None
  Files <- Dropped
  Uploads <- Nothing
  Regular <- OneDropped
  Outliving <- Nothing
  NameOf <- OneName
  MaxCopy = 3
  MaxRequeues = 2
  MaxFaults = 1
  StartLimit = 1
SPECIFICATION FairSpec
INVARIANTS NoSampleLost NoDetonationLoop
PROPERTIES Drains
CHECK_DEADLOCK FALSE
