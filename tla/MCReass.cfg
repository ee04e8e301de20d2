CONSTANTS
  Datagrams <- MCDatagrams
  WithOptions <- MCWithOptions
  DataLen = 5
  UNIT = 2
  LinkSizes = {2, 4}
  FragPbufs = {1, 2, 4}
  Chained = {4}
  IP_REASS_MAX_PBUFS = 3
  MEMP_NUM_REASSDATA = 2
  IP_REASS_MAXAGE = 1
SPECIFICATION Spec
INVARIANT PbufsHeld
PROPERTY CollectorSpec
PROPERTY DatagramsEnd
