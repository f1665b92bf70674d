SPECIFICATION Spec
CONSTANTS
  Order <- StampOrder
  Sources <- StampSources
  Targets <- StampTargets
  Slots <- StampTargets
  Of <- Single
  Rules <- StampRules
  Needs <- StampNeeds
  Extra <- StampExtra
  Optional <- NoExtra
  AlwaysBuilt = {"w"}
  Stamped = {"v"}
  Coarse = {"v"}
  Phony = {}
  Flaky = {}
  Clumsy = {}
  Editable <- StampEditable
  Absent = {}
  GoalSets <- StampGoals
  Redos <- StampRedos
  Parallel = FALSE
  MaxKill = 0
  MaxRun = 4
  MaxEdit = 2
INVARIANT UpToDateReverted
CHECK_DEADLOCK FALSE
