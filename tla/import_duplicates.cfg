SPECIFICATION Spec
CONSTANTS
  j1 = j1
  j2 = j2
  m1 = m1
  m2 = m2
  c1 = c1
  Jobs = {j1, j2}
  JobOf <- JobOfFile
  Movements = {m1, m2}
  Content <- Statements
  Ruled = {m1}
  Unreadable = {4}
  Damaged = {}
  Encrypted = {2}
  Options <- AnyOptions
  Passwords <- Secrets
  DriverDates = "Date"
  Clients = {c1}
  MaxFaults = 0
  MaxRestarts = 0
  MaxRetries = 0
INVARIANTS
  NoDoubleImport
CHECK_DEADLOCK FALSE
