SPECIFICATION MCSpec
CONSTANTS
  k1 = k1  k2 = k2  f1 = f1  o1 = o1  d1 = d1  d2 = d2
  MaxChanges = 0
  Processes = {p1, p2}
  Inodes = {1, 2}
  NoFile = 0
  NoTable = NoTable
  Unreadable = {Malformed}
  Seen <- SomeSeen
  Restamped <- SomeRestamped
  Keys = {k1, k2}
  Values <- SomeValues
  Absent = Absent
  Kinds <- SomeKinds
  Fallback = TRUE
  Threads = {p1, p2}
  Types = {"device", "sensor"}
  Owners = {o1}
  Nobody = Nobody
  Malformed = Malformed
  MaxRecords = 3
  MaxStamp = 2
  MaxLimit = 2
  Requests = {r1}
  Devices = {d1, d2}
  Records = {k1, k2}
  Files = {f1}
  Owner <- SomeOwners
  NoDevice = Nobody
INVARIANT FileOwnerChecked
CHECK_DEADLOCK FALSE
