SPECIFICATION Spec
CONSTANTS
  PublicSuffixes = {}
  IpHosts = {}
  SecureNames = {}
  HostNames = {}
  MaxAge = 5
  MaxPerDomain = 2
  MaxTotal = 2
  Written <- Nowhere
  Resolved <- Nowhere
  MaxRedirects = 1
  MaxEntries = 8
  Documents <- MCDocuments
  Web <- MCWeb
  ScriptOffers <- MCScriptOffers
  MaxLoads <- Three
  MaxBytes <- Absent
  MaxTime <- Absent
  MaxRebuilds = 1
  MaxWrites = 0
INVARIANT PrefetchedIsServed
CHECK_DEADLOCK FALSE
