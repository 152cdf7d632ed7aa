\* A run reads while the updater, Restarts and Reloads rebuild the file.
SPECIFICATION Spec
CONSTANTS
  Run = {r1}
  MaxGen = 4
  MaxFaults = 2
INVARIANTS TypeOK RulesComplete NotStale
PROPERTIES GeoRecovers
CHECK_DEADLOCK FALSE
