SPECIFICATION FairSpec
CONSTANTS
  c1 = c1
  c2 = c2
  Conns <- OneConn
  Lengths = {1, 2, 4}
  MaxSends = 4
  Modal = TRUE
  Drops = TRUE
INVARIANTS TypeOK Intact NothingLeftBehind
PROPERTIES ChannelSpec
CHECK_DEADLOCK FALSE
