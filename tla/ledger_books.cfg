SPECIFICATION BoundedSpec
CONSTANTS
  None = None
  a1 = a1
  a2 = a2
  o1 = o1
  s1 = s1
  l1 = l1
  d0 = d0
  d1 = d1
  d2 = d2
  n1 = n1
  c1 = c1
  c2 = c2
  e1 = e1
  MaxGap = 2
  Accounts = {a1, a2}
  Objectives = {o1}
  Assets = {}
  Liabilities = {}
  Types = {"income", "expense", "transfer"}
  Amounts = {1}
  Openings = {0}
  Overrides = {}
  Targets = {1}
  MaxRecords = 2
  MaxPayments = 0
  MaxBatch = 2
  LegEdits = "any"
  Categories = {}
  Companies = {}
  Descriptions = {d0}
  NormalForms = {}
  Norm <- NormOf
  Spaced = {}
  CompanyDefault <- DefaultOf
INVARIANTS
  TypeOK
  PairsTogether
PROPERTIES
  GapsComeFromBentRecords
SYMMETRY AccountSymmetry
CHECK_DEADLOCK FALSE
