SPECIFICATION Spec
CONSTANTS
  a1 = a1  j1 = j1  j2 = j2  w1 = w1  w2 = w2  e1 = e1  c1 = c1  r1 = r1  r2 = r2
  None = None
  Agents = {a1}
  Capabilities = {c1}
  Jobs = {j1, j2}
  Workers = {w1, w2}
  Approvals = {e1}
  Replayers = {r1, r2}
  AgentOf <- OneAgent
  CapabilityOf <- OneCapability
  PriorityOf <- EqualPriority
  OwnerJobs = {j1}
  ConcurrencyLimit <- LimitOne
  InitialMaxAttempts = 2
  ApprovalJob <- ApprovalOfFirst
  ApprovalBudget <- BudgetOne
  LeaseDurations = {1}
  BaseDelay = 1
  Factor = 2
  MaxDelay = 1
  MaxAge = 1
SYMMETRY Interchangeable
INVARIANTS
  TypeOK
  OnlyRevivalsExceedLimit
  AttemptsAccounted
  DeadLetterLeftOnlyByOwner
  BudgetGrantedOnce
PROPERTIES
  CompletionFenced
  LeaseNotStolen
