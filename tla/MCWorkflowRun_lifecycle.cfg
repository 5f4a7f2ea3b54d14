\* One run through cancel, timers, a crash and a resume by a client that waits
\* for it to be quiet.
SPECIFICATION Spec
CONSTANTS
  inspect = inspect
  check = check
  each = each
  fallback = fallback
  report = report
  Order <- MCOrder
  Kind <- MCKind
  DependsOn <- MCDependsOn
  ContinueOnError <- MCContinueOnError
  Source <- MCSource
  Then <- MCThen
  Else <- MCElse
  Items <- MCItems
  Parent <- MCParent
  MaxAttempts = 2
  MaxConcurrency = 2
  SlotLimit = 1
  Executions = {1}
  Patient = TRUE
  MaxWrites = 2
  MaxEvents = 2
CHECK_DEADLOCK FALSE
INVARIANTS
  WorkflowTypeOK
  QuietWhenSettled
  CompletedIsDurable
PROPERTIES
  CompletedNeverReruns
  EveryExecutionEnds
