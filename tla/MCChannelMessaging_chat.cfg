SPECIFICATION FairChannelSpec
CONSTANTS
  m1 = m1
  m2 = m2
  user = user
  bystander = bystander
  NoRow = NoRow
  User = user
  Messages <- MCMessages
  Approvals <- MCApprovals
  Rows <- MCRows
  Presses <- MCPresses
  Sequential = FALSE
  MaxAttempts = 2
  MaxEnds = 1
INVARIANTS
  ChannelTypeOK
  OutboxHonest
  ConversationSerial
PROPERTIES
  RunsOnce
  PressHeard
CHECK_DEADLOCK FALSE
