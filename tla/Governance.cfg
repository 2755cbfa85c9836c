SPECIFICATION GovernanceFairSpec
CONSTANTS
  Questions = {q1, q2}
  LaneKeys = {a, b}
  Findings = {high, low}
  Severe = {high}
  Programs = {"plan", "seat"}
  Modes = {"SAFE", "AUTO"}
  FirstMode = "AUTO"
  MaxRefusals = 2
  MaxModes = 1
  MaxCrashes = 1
INVARIANTS BudgetHolds DecidedOnce
 
