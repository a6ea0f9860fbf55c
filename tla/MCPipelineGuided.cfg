\* One operator who follows the printed commands; stages fail, nothing dies.
SPECIFICATION FairSpec
CONSTANTS
  f1 = f1
  f2 = f2
  f3 = f3
  p1 = p1
  p2 = p2
  Findings = {f1, f2}
  Procs = {p1}
  Commands = {"run", "resume"}
  Guided = TRUE
  MaxPipelines = 5
  MaxFailures = 2
  MaxCrashes = 0
INVARIANT OnlyExaminedReviewed
PROPERTY ScanGetsReviewed
CHECK_DEADLOCK FALSE
