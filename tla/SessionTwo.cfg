SPECIFICATION FairSpec
CONSTANTS
  Wizards = {w1, w2}
  Mandates = {m1, m2}
  None = None
  MaxStarts = 2
  MaxFaults = 1
  Faults <- AllFaults
INVARIANTS TypeOK ListsAgree StepsInOrder RemoteMeansReady
PROPERTY WizardIsServed
CHECK_DEADLOCK FALSE
