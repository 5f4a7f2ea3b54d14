SPECIFICATION OneNameSpec
CONSTANTS
  k1 = k1
  Keys = {k1, k2}
  MaxRequests = 2
  MaxCrashes = 1
  Approvals <- MCAsking
INVARIANTS
  RunTypeOK
  AnswerIsRecorded
  KeyRunsOnce
  RecordMatchesOperation
PROPERTIES
  RunsEnd
  Closes
CHECK_DEADLOCK FALSE
