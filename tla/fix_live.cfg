CONSTANTS
  Inbounds = {i1}
  Watched = {"Ssh", "Nginx"}
  AutoFix = TRUE
  FixThreshold = 1
  RunsCanFail = FALSE
  AggCanDie = FALSE
  MaxResets = 1
  FixCap = 5
SPECIFICATION Spec
INVARIANTS FixBudget
PROPERTIES NginxEscalates Settles
