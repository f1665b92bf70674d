SPECIFICATION Spec
CONSTANTS
  Order <- CrashOrder
  Sources <- CrashSources
  Targets <- StampTargets
  Slots <- StampTargets
  Of <- Single
  Rules <- CrashRules
  Needs <- StampNeeds
  Extra <- StampExtra
  Optional <- NoExtra
  AlwaysBuilt = {"w"}
  Stamped = {"v"}
  Coarse = {"v"}
  Phony = {}
  Flaky = {"w"}
  Clumsy = {}
  Editable <- CrashEditable
  Absent = {}
  GoalSets <- StampGoals
  Redos <- StampRedos
  Parallel = FALSE
  MaxKill = 1
  MaxRun = 3
  MaxEdit = 2
INVARIANTS UpToDate Settled OodAgrees FilesInv
PROPERTY NeverTrample
CHECK_DEADLOCK FALSE
