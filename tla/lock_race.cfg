\* Two starts at the same time, after a crash that left the socket.
SPECIFICATION Spec
CONSTANTS
  Proc = {p1, p2}
  Serial = FALSE
  MaxCrashes = 1
INVARIANTS Unique
