\* A revaluation of one warehouse in two lines, and one beside another, cancelled.
CONSTANTS
  Sklady <- MCSklady
  Document <- MCRevalued
  Reserved <- MCReserved
  Settings <- MCSettings
  MaxBatches = 2

SPECIFICATION Spec

INVARIANTS
  CostsRestored
