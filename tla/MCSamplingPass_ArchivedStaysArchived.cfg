\* A crash-dump finding the user archives, and the next scan.
SPECIFICATION SamplingSpec
CONSTANTS
  Findings = {d}
  Drivers = {1, 2, 3}
  Family <- TwoFamilies
  Traces <- ThreeTraces
  History = 4
  FastPhase = 2
  Fast = 1
  Cooldown = 2
  Elapsed = {1}
  Handles = {h}
  Threads = {t}
  Minute = 2
  Paths = {p}
  MaxStamp = 1
  FirstScan = 1
  ScanEvery = 2
  MaxRecord = 0
  InitialLookback = 4
  SteadyLookback = 2
  MaxEvents = 2
  MaxIdentities = 1
  Naps = {2, 5}
  LearningPeriod = 6
  MaxStep = 2
  Nominal = 1
  Gaps = {1, 4}
  MaxWatched = 0
  MaxGaps = 0
  Scopes = {"dumps"}
  MaxCrashes = 0
INVARIANTS
  ArchivedStaysArchived
