CONSTANTS
  Names <- MCNames
  Domains <- MCDomains
  SshPorts <- MCPorts
  Inbound <- MCInbound
  Configs <- TwoPorts
  Provisioned = {"a", "b"}
  Commands <- RebaseOnly
  RemoteFails = TRUE
  LocalFails = FALSE
  MaxEdits = 1
  MaxCommands = 1
  MaxCrashes = 0
SPECIFICATION Spec
INVARIANT NotLockedOut
CHECK_DEADLOCK FALSE
