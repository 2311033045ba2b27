SPECIFICATION FairSpec
CONSTANTS
  good = good
  bad = bad
  one = one
  all = all
  Printers <- Both
  Allowed <- Good
  None = None
  Cards <- AllOrOne
  Number <- Copies
  Bases <- Known
  Whole <- Full
  Modes = {"full", "print"}
  MaxFills = 2
  MaxDetours = 1
  Faults = {"job", "netlost"}
  MaxFaults = 1
INVARIANTS TypeOK PrintedAsChecked  PrintFindsDocument
PROPERTIES ChecksAreAnswered ChosenGetsReady
CHECK_DEADLOCK FALSE
