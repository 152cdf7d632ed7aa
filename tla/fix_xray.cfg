CONSTANTS
  Inbounds = {i1}
  Watched = {"super", i1}
  AutoFix = TRUE
  FixThreshold = 1
  RunsCanFail = FALSE
  AggCanDie = FALSE
  MaxResets = 1
  FixCap = 5
SPECIFICATION Spec
INVARIANTS XrayFixExclusive FixBudget
PROPERTIES XrayEscalates Settles
