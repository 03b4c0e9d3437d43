SPECIFICATION OperationsSpec
CONSTANTS
  r1 = r1
  r2 = r2
  r3 = r3
  Rounds = {r1, r2}
  NoRound = NoRound
  Callbacks = {c1, c2}
  Revokers = {v1}
  Publishers = {p1}
  Services = {"youtube", "irrevocable"}
  MaxEpisode = 2
  Ticks = {t1, t2}
  BackgroundTicks = {t1}
  DayMinutes = 1
  LastMinute = 1
  MaxSpacing = 8
  EpisodesPerDayLimit = 1
  Schedules <- MCSchedules
  MaxConcurrentJobs = 1
  Deciders = {d1, d2}
  Executors = {x1, x2}
  Completers = {k1}
  Kinds = {"start", "unapproved"}
  Requests = {q1, q2, q3}
  EarlierLogin = q1
  NoSession = NoSession
  Enrollments = {e1}
  NoEnrollment = NoEnrollment
  MaxStep = 2
  LockoutFailures = 2
  Executions = {x1, x2}
  Rotators = {v1, v2}
  Providers = 2
  MaxFailures = 2
  Runs = {r1, r2, r3}
  NoRun = NoRun
  ProcessOf <- MCProcessOf
  LastStage = 2
  Callers = {c1, c2, c3}
  Scopes = {"agent"}
  Outputs = {o1}
  Threshold = 2
  MaxOpenings = 2
  Sections = {"voice"}
  Answers = {"calm"}
  MaxDrafts = 3
  MaxVersions = 2
  MaxRevision = 2
  MaxTalk = 1
  Agents = {"jarvis", "lakme"}
  Snapshots = {"calm", "loud"}
  MaxItems = 2
  MaxEdits = 2
  MaxWrites = 3
INVARIANTS
  OperationsTypeOK
  StateSpentOnce
  ConnectionAccounted
  SlotsAccounted
  HermesKeepsToAuthority
  SessionsEndForGood
  TotpStepSpentOnce
  CallsAccounted
  PackagesAgree
  ProbedOnce
  OneApprovedBlueprint
  ActiveAsApproved
\* Requests, ticks, calls and runs are over, and no more come.
CHECK_DEADLOCK FALSE
