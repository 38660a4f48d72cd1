\* Postings and cancellations in every order, constants edited in between.
CONSTANTS
  Sklady <- MCSklady
  Document <- MCDocument
  Reserved <- MCReserved
  Settings <- MCSettings
  MaxBatches = 4

SPECIFICATION Spec

INVARIANTS
  BatchesMatchMovements
  Account41MatchesMovements
  ValueConserved
  UnpostRestoresBatches

PROPERTIES
  ControlKeepsBatchesPositive
  CostOrderKept
