SPECIFICATION Spec
CONSTANTS
  Pool = {1, 2}
  BUFSIZE = 6
  Ram = {5}
  Us = 10
  GroupIPs = {11}
  Hosts = {1, 2}
  Mac <- MCMac
  ArpMessages <- MCArpMessages
  Arriving <- MCArriving
  Datagrams <- MCDatagrams
  MessageOf <- MCMessageOf
  DataLen = 6
  UNIT = 2
  LinkSizes = {4}
  IP_REASS_MAX_PBUFS = 2
  MEMP_NUM_REASSDATA = 1
  IP_REASS_MAXAGE = 1
  ARP_TABLE_SIZE = 2
  ARP_MAXAGE = 2
  ARP_MAXPENDING = 1
  ARP_AGE_REREQUEST_USED_UNICAST = 2
  Gateway = 0
  NoIP = 0
  NoMAC = NoMAC
  NULL = NULL
  Broadcast = Broadcast
  ICMP_ECHO = 2
  ICMP_ER = 0
  ICMP_DUR = 3
  ICMP_TE = 1
  ICMP_DEST_UNREACH_DATASIZE = 2
  BASE = 4
INVARIANT OneOwner
PROPERTY ResponderSpec
PROPERTY PbufsReturn
