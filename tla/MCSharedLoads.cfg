SPECIFICATION Spec
CONSTANTS
  Clients = {c1, c2}
  Calls <- MCCalls
  Policies <- MCPolicies
  Server <- MCServer
  Written <- MCWritten
  Resolved <- MCResolved
  MaxRedirects = 1
  MaxEntries = 2
  MaxOpen = 1
  MaxCalls = 2
  MaxSets = 1
SYMMETRY Symmetry
INVARIANTS OrderIsMap BatchKeepsItsOrder CookiesNameTheirHop BlockedOnlyOverKept
CHECK_DEADLOCK FALSE
