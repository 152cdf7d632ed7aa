\* Three servers, two of them proxied and in the same zone, with a parent zone.
SPECIFICATION Spec
CONSTANTS
  Servers <- MCServers
  Domain <- MCDomain
  Proxied = {"s2", "s3"}
  Zones <- MCZones
  Account <- OneAccount
  MaxCycles = 4
  MaxFaults = 2
  MaxEdits = 1
INVARIANTS TypeOK NoDuplicates StateConnected
PROPERTIES Converges
CHECK_DEADLOCK FALSE
