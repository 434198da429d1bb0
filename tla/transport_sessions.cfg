SPECIFICATION SessionsSpec
CONSTANTS
  c1 = c1  c2 = c2  c3 = c3  d1 = d1  d2 = d2
  NoConn = NoConn  NoDev = NoDev
  Conns <- ThreeConns
  Devices <- TwoDevices
  MAX_CONNECTIONS = 2
  CanStop = TRUE
SYMMETRY Interchangeable
INVARIANTS SlotsKept BoundRight PresenceTrue
PROPERTIES PresenceRefined StaleCloseSafe
