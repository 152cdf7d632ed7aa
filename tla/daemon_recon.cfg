CONSTANTS
  Names <- MCNames
  Domains <- MCDomains
  SshPorts <- MCPorts
  Inbound <- MCInbound
  Configs <- ReconConfigs
  Provisioned = {"a"}
  Commands <- ReconCommands
  RemoteFails = TRUE
  LocalFails = TRUE
  MaxEdits = 2
  MaxCommands = 2
  MaxCrashes = 1
SPECIFICATION Spec
INVARIANTS CredentialsInstalled DbMirrorsMemory
PROPERTY ProductionKept
CHECK_DEADLOCK FALSE
