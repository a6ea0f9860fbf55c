\* Two processes at a time, with failures and process deaths.
SPECIFICATION Spec
CONSTANTS
  f1 = f1
  f2 = f2
  f3 = f3
  p1 = p1
  p2 = p2
  Findings = {}
  Procs = {p1, p2}
  Commands = {"run", "resume", "falsify"}
  Guided = FALSE
  MaxPipelines = 2
  MaxFailures = 1
  MaxCrashes = 1
SYMMETRY Symmetry
PROPERTY PaidStageOnce
CHECK_DEADLOCK FALSE
