SPECIFICATION RaceSpec
CONSTANTS
  None = None
  a1 = a1
  a2 = a2
  o1 = o1
  d0 = d0
  p1 = p1
  p2 = p2
  Requests = {p1, p2}
  Ops = {"transfer", "update", "remove"}
  MaxAsked = 3
  Accounts = {a1, a2}
  Objectives = {}
  Assets = {}
  Liabilities = {}
  Types = {"expense", "transfer"}
  Amounts = {1}
  Openings = {0}
  Overrides = {}
  Targets = {1}
  MaxRecords = 6
  MaxPayments = 3
  MaxBatch = 1
  LegEdits = "sameShape"
  Categories = {}
  Companies = {}
  Descriptions = {d0}
  NormalForms = {}
  Norm <- NoNorm
  Spaced = {}
  CompanyDefault <- NoDefault
INVARIANTS
  PairsTogether
CHECK_DEADLOCK FALSE
