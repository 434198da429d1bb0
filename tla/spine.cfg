SPECIFICATION MCSpec
CONSTANTS
  s1 = s1
  s2 = s2
  s3 = s3
  Services <- Names
  DependencySets <- AnyDependency
  Requests = {r1}
  NoService = NoService
  Unregistered = Unregistered
  Identities = {i1}
  Tokens = {t1}
  NoIdentity = NoIdentity
  NoToken = NoToken
SYMMETRY Symmetric
INVARIANTS DependenciesRunning  OutcomeReported
PROPERTY StartRefusedWhole
CHECK_DEADLOCK FALSE
