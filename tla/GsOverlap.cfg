SPECIFICATION Spec
CONSTANTS
  Templates <- TwoKinds
  PageCounts = {1, 2}
  MaxPreps = 2
  MaxRestarts = 1
  Faults = {"job", "template"}
INVARIANTS TypeOK JobsHaveEntries PreviewComesFirst
PROPERTIES ReadyOnlyWhenDone
CHECK_DEADLOCK FALSE
