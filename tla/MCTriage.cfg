CONSTANTS
    alice = alice
    bob = bob
    Findings = {1}
    Key <- EachItsOwn
    Repo <- OneRepo
    Analysts = {alice, bob}
    Dispositions = {"confirmed_actionable", "tool_incorrect", "insufficient_evidence"}
    Verdicts = {"confirmed"}
    Decisions = {"dismiss"}
    MaxAssessments = 3
    MaxAbandoned = 1
SPECIFICATION FairSpec
INVARIANTS
    ManualIsLastDecision
    MaterialTakesTwo
    CountedIsHuman
PROPERTIES
    LabelsCatchUp
CHECK_DEADLOCK FALSE
