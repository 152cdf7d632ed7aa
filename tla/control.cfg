\* A connection used twice and the signal watcher compete for a channel of two
\* places; two services; the database and the start of a cycle may fail.
SPECIFICATION Spec
CONSTANTS
  Client = {c1}
  Svc = {s1, s2}
  Signals = {"Shutdown", "Reload"}
  QueueCap = 2
  MaxRequests = 2
  MaxSignals = 1
  MaxClock = 2
  Faults = TRUE
INVARIANTS TypeOK StatusKept
PROPERTIES RequestsEnd ShutdownTakes StatusWritten
CHECK_DEADLOCK FALSE
