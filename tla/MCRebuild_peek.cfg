SPECIFICATION Spec
CONSTANTS
  Order <- TreeOrder
  Sources <- TreeSources
  Targets <- TreeTargets
  Slots <- TreeSlots
  Of <- TreeOf
  Rules <- TreeRules
  Needs <- TreeNeeds
  Extra <- NoExtra
  Optional <- TreeOptional
  AlwaysBuilt = {}
  Stamped = {}
  Coarse = {}
  Phony = {"all"}
  Flaky = {}
  Clumsy = {}
  Editable <- TreeEditable
  Absent = {"o"}
  GoalSets <- TreeGoals
  Redos <- TreeRedos
  Parallel = TRUE
  MaxKill = 0
  MaxRun = 2
  MaxEdit = 1
INVARIANT UpToDatePeeked
CHECK_DEADLOCK FALSE
