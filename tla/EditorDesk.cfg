SPECIFICATION Spec
CONSTANTS
  Files = {a, b}
  Temp = Temp
  None = None
  Items = {i1, i2, i3}
  Tags = {t1, t2}
  Looks = {0, 1}
  Angles = {0, 90}
  Picture = Picture
  Stored <- TheTemplate
  Limits = {0, 2}
  MaxActs = 4
  MaxFaults = 2
INVARIANTS TypeOK CommandsHaveElements PageFollowsStack SavesWhereItCameFrom PageIsItsFile
SYMMETRY NamesAlike
CHECK_DEADLOCK FALSE
