CONSTANTS
  MaxDetections = 2
  c1 = c1
  c2 = c2
  Callers = {c1, c2}
  Does <- MCDoes
  Keepalive = keepalive
  MainThread = mainThread
  None = none
  MaxClients = 4
  MaxFallbacks = 1
  MaxTroubles = 1
  Runs = {r1}
  StuckPhases = {p1}
  Sessions = {s1}
  Poller = poller
  NoGoal = noGoal
  NoEvent = noEvent
  MaxCompletions = 1
  MaxDeliveries = 2
  MaxFleetOps = 1
  MaxStoreTroubles = 1
  Phases = {1, 2}
  NotRecorded = notRecorded
  MinPoints = 2
  MaxSpan = 1
  MaxRuns = 2
  MaxCrashes = 1
  MaxCount = 2
  Publishers = {u1, u2}
  Puller = puller
  BlockAt = 2
  Torn = torn
  MaxTraffic = 3
  MaxMonths = 1
  MaxUsageTroubles = 1
  Commits = {k1, k2}
  MaxAttempts = 3
  Unset = unset
SPECIFICATION PartsSpec
INVARIANTS
  PartsTypeOK
  EventsOnceUnlessRaced
  ToldIsCounted
  LearnedNeedsRuns
  AveragesAreHonest
  BlockHolds
  AttemptsAreCounted
  ExpertInThisAttempt
  RevertsWhatWasDropped
PROPERTIES
  FailureGoesOut
  HandedOutIsUsable
  CommandsReturn
  ImplementsGate
CHECK_DEADLOCK FALSE
