SPECIFICATION ExecutorSpec
INVARIANTS ReportHolds LeftoverReported
PROPERTY OthersSpared
