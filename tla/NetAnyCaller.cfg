CONSTANTS
  Txns = {"short", "conflict", "repeats"}
  Ops <- MCOps
  TxnOf <- MCTxnOf
  ApplyOrder <- MCApplyOrder
  Kind <- MCKind
  Scope <- MCScope
  Setting <- MCSetting
  Reversible <- MCReversible
  Original = Original
  NoFile = NoFile
  Unix = FALSE
  RetriesPending = TRUE
  StacksApplied = TRUE
SPECIFICATION Spec
INVARIANT AppliedInForce
PROPERTY WriteOrder
