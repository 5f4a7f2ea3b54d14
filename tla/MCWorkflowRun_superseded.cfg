\* The client resumes a run that says "cancelled" while its execution still drains.
SPECIFICATION Spec
CONSTANTS
  inspect = inspect
  check = check
  each = each
  fallback = fallback
  report = report
  Order <- MCOrder
  Kind <- MCKind
  DependsOn <- MCDependsOn
  ContinueOnError <- MCContinueOnError
  Source <- MCSource
  Then <- MCThen
  Else <- MCElse
  Items <- MCItems
  Parent <- MCParent
  MaxAttempts = 2
  MaxConcurrency = 2
  SlotLimit = 1
  Executions = {1, 2}
  Patient = FALSE
  MaxWrites = 2
  MaxEvents = 2
CHECK_DEADLOCK FALSE
INVARIANTS
  QuietWhenSettled
