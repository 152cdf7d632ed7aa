CONSTANTS
  Inbounds = {i1}
  Watched = {"Ssh", "Nginx"}
  AutoFix = TRUE
  FixThreshold = 2
  RunsCanFail = TRUE
  AggCanDie = TRUE
  MaxResets = 1
  FixCap = 0
SPECIFICATION Spec
INVARIANTS TypeOK NginxLevelsTried 
