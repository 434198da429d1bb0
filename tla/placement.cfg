SPECIFICATION PlacementSpec
CONSTANTS
  t1 = t1  t2 = t2
  d1 = d1  d2 = d2  d3 = d3
  a1 = a1  a2 = a2  a3 = a3  a4 = a4
  p1 = p1  p2 = p2
  NoDev = NoDev  NoAgent = NoAgent  NoProfile = NoProfile
  Callers <- TwoCallers
  Devices <- ThreeDevices
  Agents <- FourAgents
  Profiles <- TwoProfiles
  MaxAssignments <- OnePlace
  Score <- Suits
  Fallback = p1
  AutoAssign = TRUE
SYMMETRY Interchangeable
INVARIANTS CountsMatch AgentPublished TablesKept
PROPERTY NeverReplaced
