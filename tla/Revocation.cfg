CONSTANTS
  Capacity = 2
  MaxDropped = 1
  MaxFailures = 4
  MaxChanges = 2
SPECIFICATION Spec
INVARIANTS VerdictTruthful IntentBeforeMutation ContainedOnceTouched DenyNotMasked Accounted
