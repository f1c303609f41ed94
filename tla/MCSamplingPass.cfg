\* Each engine's findings in turn: traces led by two storage drivers, a
\* network driver; a handle and a thread finding; a dump written twice. Every
\* capture may fail, every pass may crash. Then three events under a cap of two,
\* and a baseline over two sleeps.
SPECIFICATION SamplingSpec
CONSTANTS
  Findings = {d}
  Drivers = {1, 2, 3}
  Family <- TwoFamilies
  Traces <- ThreeTraces
  History = 4
  FastPhase = 2
  Fast = 1
  Cooldown = 2
  Elapsed = {1}
  Handles = {h}
  Threads = {t}
  Minute = 2
  Paths = {p}
  MaxStamp = 2
  FirstScan = 1
  ScanEvery = 2
  MaxRecord = 3
  InitialLookback = 4
  SteadyLookback = 2
  MaxEvents = 2
  MaxIdentities = 1
  Naps = {2, 5}
  LearningPeriod = 6
  MaxStep = 2
  Nominal = 1
  Gaps = {1, 4}
  MaxWatched = 8
  MaxGaps = 2
  Scopes = {"interrupts", "growth", "dumps", "events", "learning"}
  MaxCrashes = 1
INVARIANTS
  SamplingTypeOK
  NothingLeftRunning
  BaselinesAreOwn
  TableAgreesWithSnapshot
  NothingLostSilently
  LearnedIsObserved
PROPERTIES
  NoSwinging
  ResolvesWithEvidence
  CaptureReturns
