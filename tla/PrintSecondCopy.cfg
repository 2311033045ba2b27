SPECIFICATION Spec
CONSTANTS
  Docs <- FullTwo
  PageCount = 3
  FileSize <- SizeOfPage
  MaxPreps = 1
  MaxClicks = 2
  Patient = TRUE
  Faults = {}
PROPERTY PagesOnlyLeaveSent
CHECK_DEADLOCK FALSE
