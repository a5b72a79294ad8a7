CONSTANTS
  u1 = u1
  u2 = u2
  s1 = s1
  link = link
  None = None
  Files <- TwoUploads
  Uploads <- TwoUploads
  Regular <- TwoUploads
  Outliving <- OneUpload
  NameOf <- UploadNames
  MaxCopy = 1
  MaxRequeues = 0
  MaxFaults = 2
  StartLimit = 1
SPECIFICATION Spec
INVARIANTS ArrivalOrder TailOwnRun
PROPERTIES ContractSpec
CHECK_DEADLOCK FALSE
