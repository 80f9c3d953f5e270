CONSTANTS
  Txns = {"connect"}
  Ops <- MCOps
  TxnOf <- MCTxnOf
  ApplyOrder <- MCApplyOrder
  Kind <- MCKind
  Scope <- MCScope
  Setting <- MCSetting
  Reversible <- MCReversible
  Original = Original
  NoFile = NoFile
  Unix = TRUE
  RetriesPending = TRUE
  StacksApplied = FALSE
SPECIFICATION Spec
INVARIANTS UndoVisible
