SPECIFICATION MCSpec
CONSTANTS
  Absent = Absent
  Devices = {d1}
  Tokens = {k1}
  Requests <- SomeRequests
  Threads = {t1, t2}
  Handlers = {u1, u2}
  Monitored = {m1}
  Nobody = Nobody
  Jobs = {j1, j2, j3}
  Users = {u1, u2}
  NoUser = NoUser
  NoJob = NoJob
  MAX_ACTIVE = 2
  MAX_JOBS = 2
SYMMETRY Interchangeable
INVARIANTS Serving Silent CredentialsRestored
  EventDelivered ViewCurrent
  JobsBounded StopTakesEffect CloseStopsAll
PROPERTY RestartRegisters
CHECK_DEADLOCK FALSE
