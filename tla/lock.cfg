\* Three PIDs, one start or stop at a time, crashes at any of its steps.
SPECIFICATION Spec
CONSTANTS
  Proc = {p1, p2, p3}
  Serial = TRUE
  MaxCrashes = 3
INVARIANTS TypeOK Reachable
PROPERTIES SingleDaemonSpec StaleFilesRecovered
