SPECIFICATION Spec
CONSTANTS
  None = None
  a1 = a1
  a2 = a2
  o1 = o1
  s1 = s1
  l1 = l1
  d0 = d0
  d1 = d1
  d2 = d2
  n1 = n1
  c1 = c1
  c2 = c2
  e1 = e1
  MaxGap = 0
  Accounts = {a1, a2}
  Objectives = {}
  Assets = {}
  Liabilities = {}
  Types = {"expense", "transfer"}
  Amounts = {1, 2}
  Openings = {0}
  Overrides = {}
  Targets = {2}
  MaxRecords = 2
  MaxPayments = 0
  MaxBatch = 1
  LegEdits = "sameShape"
  Categories = {c1}
  Companies = {e1}
  Descriptions = {d1, d2}
  NormalForms = {n1}
  Norm <- NormOf
  Spaced = {d2}
  CompanyDefault <- DefaultOf
INVARIANTS
  Reconciled
  QueueIsUncategorized
PROPERTIES
  CategoryNeverLost
  PairsPartByPatch
SYMMETRY AccountSymmetry
CHECK_DEADLOCK FALSE
