SPECIFICATION Spec
CONSTANTS
  Docs <- TwoShapes
  PageCount = 3
  FileSize <- SizeOfPage
  MaxPreps = 2
  MaxClicks = 3
  Patient = FALSE
  Faults = {"nospace", "printfail", "netlost", "clientgone"}
INVARIANTS TypeOK SentInOrder CopiesNeverRunDry OneVerdictPerClick
CHECK_DEADLOCK FALSE
