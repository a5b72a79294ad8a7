CONSTANTS
  u1 = u1
  u2 = u2
  s1 = s1
  link = link
  None = None
  Files <- TwoUploads
  Uploads <- TwoUploads
  Regular <- TwoUploads
  Outliving <- Nothing
  NameOf <- UploadNames
  MaxCopy = 1
  MaxRequeues = 0
  MaxFaults = 0
  StartLimit = 1
SPECIFICATION Spec
INVARIANTS DeletedAfterProcessing
CHECK_DEADLOCK FALSE
