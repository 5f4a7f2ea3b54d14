SPECIFICATION FairChannelSpec
CONSTANTS
  m1 = m1
  m2 = m2
  user = user
  bystander = bystander
  NoRow = NoRow
  User = user
  Messages <- MCMessages
  Approvals <- MCApprovals
  Rows <- MCRows
  Presses <- MCPresses
  Sequential = TRUE
  MaxAttempts = 1
  MaxEnds = 0
PROPERTIES
  PressHeard
CHECK_DEADLOCK FALSE
