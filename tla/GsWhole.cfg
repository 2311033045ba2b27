SPECIFICATION FairSpec
CONSTANTS
  Templates <- Joinable
  PageCounts = {1, 2}
  MaxPreps = 1
  MaxRestarts = 0
  Faults = {"template", "gone"}
PROPERTIES AllCopiesReady JoinedIsReady
CHECK_DEADLOCK FALSE
