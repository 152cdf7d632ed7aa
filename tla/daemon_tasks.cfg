CONSTANTS
  Names <- MCNames
  Domains <- MCDomains
  SshPorts <- MCPorts
  Inbound <- MCInbound
  Configs <- Stale
  Provisioned = {"a"}
  Commands <- TaskCommands
  RemoteFails = TRUE
  LocalFails = TRUE
  MaxEdits = 1
  MaxCommands = 3
  MaxCrashes = 0
SPECIFICATION Spec
INVARIANTS TypeOK PlaybooksApart CredentialsInstalled DbMirrorsMemory
PROPERTIES ProductionKept MonitorsFollow
CHECK_DEADLOCK FALSE
