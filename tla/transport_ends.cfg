SPECIFICATION FairSpec
CONSTANTS
  c1 = c1  c2 = c2  c3 = c3  d1 = d1  d2 = d2
  NoConn = NoConn  NoDev = NoDev
  Conns <- TwoConns
  Devices <- OneDevice
  MAX_CONNECTIONS = 1
  CanStop = TRUE
PROPERTIES LeaseEnforced StopDrains
