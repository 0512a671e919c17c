CONSTANTS
  r1 = r1
  r2 = r2
  r3 = r3
  Caller = {r1, r2, r3}
  MaxAttempts = 2
  Overhead = 1
  Margin = 2
  Scenes <- MCScenes
  Permits = 2
  WindowSize = 3
  MinimumCalls = 2
  FailureRate = 50
  TrialCalls = 1
  Latency = 1
SPECIFICATION Spec
INVARIANTS
  CitesOnlyEvidence
  OnlySourcesPromise
  FallbackOnlyForFailures
  DeadlinesAreAttributed
PROPERTIES
  EveryWorkerLeaves
\* The analyses come to an end.
CHECK_DEADLOCK FALSE
