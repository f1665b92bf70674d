SPECIFICATION FairSpec
CONSTANTS
  Order <- TreeOrder
  Sources <- TreeSources
  Targets <- TreeTargets
  Slots <- TreeSlots
  Of <- TreeOf
  Rules <- TreeRules
  Needs <- TreeNeeds
  Extra <- NoExtra
  Optional <- TreeOptional
  AlwaysBuilt = {}
  Stamped = {"y"}
  Coarse = {}
  Phony = {"all"}
  Flaky = {}
  Clumsy = {"x"}
  Editable <- TreeEditable
  Absent = {"o"}
  GoalSets <- TreeGoals
  Redos <- TreeRedos
  Parallel = TRUE
  MaxKill = 0
  MaxRun = 3
  MaxEdit = 1
INVARIANTS TypeOK UpToDate Settled FailsForCause NoFalseSuccess NothingLeft SourcesAndTargets
PROPERTY EveryRunEnds
CHECK_DEADLOCK FALSE
