SPECIFICATION MCSpec
CONSTANTS
  Absent = Absent
  Devices = {d1}
  Tokens = {k1}
  Requests = {{}}
  Threads = {t1}
  Handlers = {h1}
  Monitored = {m1}
  Nobody = Nobody
  Jobs = {j1}
  Users = {u1}
  NoUser = NoUser
  NoJob = NoJob
  MAX_ACTIVE = 1
  MAX_JOBS = 1
INVARIANT RestartAuthenticates
CHECK_DEADLOCK FALSE
