SPECIFICATION Spec
CONSTANTS
  Procs = {"p1", "p2"}
  None = "none"
  Daemon = "daemon"
  Killed = "killed"
  Addresses = {"a", "zero"}
  Macs = {"0"}
  SIZE_MAX = 99
  CAPACITY = 2
  Indexes = {0}
  MAX_COMMANDS = 3
  MAX_QUERIES = 1
  BUFFER = 2
  Lost = Lost
  SizeOf <- One
  Commands <- MCCommands
  Files <- MCFiles
  Rules <- MCRules
  Policies <- MCPolicies
  NoPolicy <- DnsPolicy
  RawRules <- MCRawRules
  RawPolicies <- MCPolicies
CHECK_DEADLOCK FALSE
INVARIANT SavedCanBeLoaded
