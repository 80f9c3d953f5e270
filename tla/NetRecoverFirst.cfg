CONSTANTS
  Txns = {"connect", "oneway", "unsafe"}
  Ops <- MCOps
  TxnOf <- MCTxnOf
  ApplyOrder <- MCApplyOrder
  Kind <- MCKind
  Scope <- MCScope
  Setting <- MCSetting
  Reversible <- MCReversible
  Original = Original
  NoFile = NoFile
  Unix = TRUE
  RetriesPending = FALSE
  StacksApplied = FALSE
SPECIFICATION FairSpec
INVARIANTS UndoDurable GateExclusive
PROPERTIES KillSwitchEnvelope Resolved ImplementsUndoLog
