SPECIFICATION Spec
CONSTANTS
  MAX_MAC_IP_MAPPINGS = 2
  MAPPING_TIMEOUT = 1
  Hosts = {"a", "b"}
  RuleHosts = {"a"}
  Ipv4 <- MCIpv4
  Ipv6 <- MCIpv6
  FirstFour <- SamePrefix
  Layouts <- MCLayouts
  Noise <- MCNoise
  dnsPort = 53
  Clock = {0, 1, 3}
  Families = {TRUE, FALSE}
  MayDrop = TRUE
  MAX_MOVES = 1
  QLEN = 1
INVARIANTS
  MacTypeOK
  OneRecordPerMac
  NeverAnotherMac
PROPERTIES
  RecentMappingKept
  QueriesTeach
