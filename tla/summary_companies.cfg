SPECIFICATION Spec
CONSTANTS
  u1 = u1
  u2 = u2
  m1 = m1
  m2 = m2
  a = a
  b = b
  v = v
  n1 = n1
  n2 = n2
  None = None
  Users = {u1, u2}
  Registered = {u1}
  Requests = {a, b}
  Mails = {m1, m2}
  MaxAsks = 3
  MaxFaults = 1
  Askers = {a, b}
  Verifiers = {v}
  OTP_TTL = 2
  OTP_MAX_ATTEMPTS = 2
  RESET_TOKEN_TTL = 2
  MaxCodes = 2
  MaxGuesses = 4
  MaxClock = 3
  Visitors = {a, b}
  limit = 3
  ttl = 2
  blockDuration = 2
  maxAttempts = 2
  windowMs = 2
  blockDurationMs = 3
  MaxVisits = 6
  MaxTick = 5
  Sockets = {v}
  Jobs = {a, b}
  MaxNotices = 2
  MaxJobs = 5
  Clerks = {a, b}
  Names = {n1, n2}
  Notes = {m1, m2}
  Unsaid = None
  MaxEntries = 2
  MaxOrders = 4
  IsDocument <- IsStatement
  MAX_TRANSACTIONS_PER_FILE = 2
  Services = {"reports"}
INVARIANTS
  ExpensesOfCompaniesAddUp
CHECK_DEADLOCK FALSE
