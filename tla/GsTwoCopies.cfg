SPECIFICATION FairSpec
CONSTANTS
  Templates <- TwoCopies
  PageCounts = {2}
  MaxPreps = 1
  MaxRestarts = 0
  Faults = {}
PROPERTIES MergedIsReady
CHECK_DEADLOCK FALSE
