SPECIFICATION Spec
CONSTANTS
  ARP_TABLE_SIZE = 2
  ARP_MAXAGE = 5
  ARP_MAXPENDING = 2
  ARP_AGE_REREQUEST_USED_UNICAST = 2
  IPs = {h1, h2, h3}
  MACs = {m1, m2}
  Packets = {1, 2, 3}
  Gateway = NoIP
  NoIP = NoIP
  NoMAC = NoMAC
  NULL = NULL
  Broadcast = Broadcast
INVARIANTS OneEntryPerHost PacketsAccounted RerequestsPaced
PROPERTIES CacheSpec PendingEnds
