SPECIFICATION FairSpec
CONSTANTS
  j1 = j1
  r1 = r1
  r2 = r2
  d1 = d1
  d2 = d2
  d3 = d3
  Monitor = Monitor
  Jobs = {j1}
  MaxFailures = 3
  MaxCrashes = 1
  AllBeatOnce = TRUE
  Requests = {r1, r2}
  Authorities = {1, 2}
  NoList = NoList
  MaxCerts = 3
  MaxFaults = 1
  MaxEvents = 2
  QuietCa = TRUE
  Devices = {d1, d2, d3}
  Reporters = {d1}
  Failing = {d3}
  PerTick = 2
  MaxReports = 2
  QuietRow = TRUE
  m1 = m1
  a1 = a1
  a2 = a2
  a3 = a3
  v1 = v1
  v2 = v2
  Machines = {m1}
  AppOrder <- MCApps
  OsVersions = {v1, v2}
  Apple = {m1}
  Unheld = Unheld
  Scheduled = Scheduled
  Forced = Forced
  BatchCap = 2
  ChunkSize = 1
  Lifetime = 2
  FullAnswers = TRUE
  MaxChanges = 1
  MaxForced = 1
  MaxErrors = 1
INVARIANTS
  SerialsUnique
  ActiveIsHeld
  LatestReportIsKept
  RowsTellTheirKey
PROPERTIES
  RecoveryFollowsHeartbeat
  NoticesConverge
  DeviceIsServed
  AppsTurnOver
  VerdictsStayNew
CHECK_DEADLOCK FALSE
