SPECIFICATION Spec
CONSTANTS
  None = None
  a1 = a1
  a2 = a2
  o1 = o1
  s1 = s1
  l1 = l1
  d0 = d0
  d1 = d1
  d2 = d2
  n1 = n1
  c1 = c1
  c2 = c2
  e1 = e1
  MaxGap = 0
  Accounts = {a1}
  Objectives = {o1}
  Assets = {s1}
  Liabilities = {l1}
  Types = {"income", "expense", "investment", "transfer"}
  Amounts = {1}
  Openings = {0}
  Overrides = {0}
  Targets = {1}
  MaxRecords = 1
  MaxPayments = 1
  MaxBatch = 1
  LegEdits = "sameShape"
  Categories = {}
  Companies = {}
  Descriptions = {d0}
  NormalForms = {}
  Norm <- NormOf
  Spaced = {}
  CompanyDefault <- DefaultOf
INVARIANTS
  Reconciled
PROPERTIES
  CompletionFollowsBalance
CHECK_DEADLOCK FALSE
