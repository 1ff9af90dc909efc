SPECIFICATION Spec
CONSTANTS
  u1 = u1
  u2 = u2
  m1 = m1
  m2 = m2
  a = a
  b = b
  v = v
  n1 = n1
  n2 = n2
  None = None
  Users = {u1, u2}
  Registered = {u1}
  Requests = {a, b}
  Mails = {m1, m2}
  MaxAsks = 3
  MaxFaults = 1
  Askers = {a, b}
  Verifiers = {a, b}
  OTP_TTL = 2
  OTP_MAX_ATTEMPTS = 2
  RESET_TOKEN_TTL = 1
  MaxCodes = 2
  MaxGuesses = 3
  MaxClock = 2
  Visitors = {a, b}
  limit = 3
  ttl = 2
  blockDuration = 2
  maxAttempts = 2
  windowMs = 2
  blockDurationMs = 3
  MaxVisits = 6
  MaxTick = 5
  Sockets = {v}
  Jobs = {a, b}
  MaxNotices = 2
  MaxJobs = 3
  Clerks = {a, b}
  Names = {n1, n2}
  Notes = {m1, m2}
  Unsaid = None
  MaxEntries = 2
  MaxOrders = 4
  IsDocument <- IsStatement
  MAX_TRANSACTIONS_PER_FILE = 2
  Services = {"accounts", "codes", "limits", "inbox", "registries", "statements", "plans", "counts", "reports", "listings"}
INVARIANTS
  NoHalfAccounts
  LockedOutStaysOut
  StoresAgree
  CodeBuysOneToken
  GuessesAreBounded
  NoMoreThanLimit
  BlockOutlivesCount
  NothingIsMissed
  ReadsAreReported
  NoTwins
  LastAnswerHolds
  PaymentsFitTheTerm
  UnmatchedExplainTheGap
  SummariesAddUp
  TransfersListedOnce
  StatementsAreReadWhole
SYMMETRY Symmetry
CHECK_DEADLOCK FALSE
