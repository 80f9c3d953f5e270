CONSTANTS
    Contents = {c1, c2}
SPECIFICATION Spec
INVARIANTS CompletedMeansDone FailureAccounted JobBacked
