SPECIFICATION Spec
CONSTANTS
  Notices = {n1, n2}
  Bouncing = {n1}
  Events = {e1}
  Retries = {rj1}
  MaxEmailAttempts = 2
  BatchSize = 1
  MaxDoubts = 1
  MaxStops = 1
  Docs = {d1, d2}
  ExpiryDays = {0}
  WarningDays = 1
  LastDate = 1
  Sweeps = {s1, s2}
  Uploaders = {v1}
  Nothing = Nothing
  Schedules = {m1, m2}
  Readers = {a1, a2}
  a1 = a1 a2 = a2 c1 = c1 c2 = c2 d1 = d1 d2 = d2 m1 = m1 m2 = m2
  Unreachable = {a2}
  Timetables <- OneTimetable
  Lists <- ThreeLists
  Month = 1
  LastHour = 1
  ReportJobs = {hourly}
  Senders = {hourly}
  Never = Never
  Feeds = {f1}
  Agreements = {g1}
  FeedTimetables <- PullTimetables
  Terms <- LapsingTerms
  Day = 2
  Week = 2
  LastTick = 1
  FeedJobs = {hourly}
  Pullers = {p1}
  MaxBreaks = 1
  NotYet = NotYet
  Files = {x1, x2, x3}
  MaxFiles = 2
  Uploads = {up1, up2}
  Handlers = {h1}
  Templates = {t1, t2}
  Names = {A}
  Sections = {z1}
  Keys = {k1}
  Periods = {y1}
  Absent = Absent
  Codes = {c1, c2}
  CodesPerSet = 1
  Challenges = {k1}
  Logins = {q1, q2}
  MaxTries = 1
  Accounts = {u1, u2, u3}
  Seeded = u1
  Entities = {j1}
  NoEntity = NoEntity
  Issuers = {i1, i2, i3}
  MaxAttempts = 2
  MaxIssued = 5
  Contents = {w0, w1, w2, w3}
  Empty = w0
CONSTRAINT InOrder
INVARIANTS
  SequenceTypeOK
  LoneRequestNumbered
  GaveUpOnlyIfBeaten
  AutosaveTypeOK
  SavedIsStored
  DeliveredOnce
  StageAlertedOnce
  EvidenceStored
  OneAttemptPerWindow
  OneInForce
  RulesResolve
  RecoveryCodeOnce
  AuthorityHasAdmin
PROPERTIES
  NoneStarved
  DueGoesOut
  NoRedundantSave
  NextEditTriesAgain
CHECK_DEADLOCK FALSE
