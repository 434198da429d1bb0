SPECIFICATION MCSpec
CONSTANTS
  NoComponent = 0
  Components <- OneToThree
  Names <- OneToThree
  NoName = 0
  DependencySets <- OneOrTwo
  Jobs = {j1, j2}
  Users = {u1, u2}
  NoUser = NoUser
  NoJob = NoJob
  MAX_ACTIVE = 2
  MAX_JOBS = 2
INVARIANTS UpAsShown SearchFindsOrder OrderIsRight
PROPERTIES ShutDownOnce PolicyStartable CallsReturn TasksEnd CloseEnds
