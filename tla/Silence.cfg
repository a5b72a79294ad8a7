CONSTANTS
  CapeTimeout = 4
  PollInterval = 1
  RequestTime = 1
  MaxErrors = 1
  MaxPids = 2
  NumPlugins = 3
  Dlllist = 1
  Malfind = 2
  Cmdline = 3
  Workers = 2
  StageLimit = 3
  PluginTime = 2
  DumpTime = 2
  VadTime = 2
  Samples <- MCSamples
SPECIFICATION Spec
INVARIANT SilenceMeansChecked
CHECK_DEADLOCK FALSE
