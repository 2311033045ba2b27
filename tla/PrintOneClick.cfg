SPECIFICATION FairSpec
CONSTANTS
  Docs <- EveryTemplate
  PageCount = 3
  FileSize <- SizeOfPage
  MaxPreps = 1
  MaxClicks = 1
  Patient = FALSE
  Faults = {"nospace", "printfail", "netlost", "clientgone"}
INVARIANTS SentAsPrepared SidesConfirmed VerdictAfterLastPage
PROPERTIES PagesOnlyLeaveSent StartedIsJudged
CHECK_DEADLOCK FALSE
