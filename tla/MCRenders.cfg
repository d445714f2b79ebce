SPECIFICATION Spec
CONSTANTS
  PublicSuffixes = {}
  IpHosts = {}
  SecureNames = {}
  HostNames = {}
  MaxAge = 5
  MaxPerDomain = 2
  MaxTotal = 2
  Written <- Nowhere
  Resolved <- Nowhere
  MaxRedirects = 1
  MaxEntries = 8
  Documents <- MCDocuments
  Web <- MCWeb
  ScriptOffers <- MCScriptOffers
  MaxLoads <- Six
  MaxBytes <- Six
  MaxTime <- Absent
  MaxRebuilds = 2
  MaxWrites = 1
INVARIANTS LayersHold WarmStaysWarm
PROPERTIES JarMovesByTransfers
CHECK_DEADLOCK FALSE
