SPECIFICATION Spec
CONSTANTS
  PublicSuffixes <- MCSuffixes
  IpHosts <- MCIpHosts
  SecureNames = {}
  HostNames = {"__Host-h"}
  MaxAge = 5
  MaxPerDomain = 2
  MaxTotal = 3
  Urls <- MCUrls
  Redirects <- MCRedirects
  Offers <- MCOffers
  MaxNow = 1
INVARIANTS TypeOK StaysInItsSite
PROPERTIES ProtectedCookiesStay NeighboursAreSpared
CHECK_DEADLOCK FALSE
