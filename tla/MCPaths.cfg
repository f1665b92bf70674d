SPECIFICATION Spec
CONSTANTS
  MaxLen = 9
  Cwds <- SomeCwds
INVARIANTS TypeOK NormPathOK NearestFirst SameTarget NothingLeftOut LeadsThere PathsInv
CHECK_DEADLOCK FALSE
