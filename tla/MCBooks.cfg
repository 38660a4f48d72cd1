\* The books of two days and the shifts of one cash desk.
CONSTANTS
  Sklady <- MCSklady
  Document <- MCDocument
  Reserved <- MCReserved
  Settings <- MCSettings
  MaxBatches = 4
  Payment <- MCPayment
  Header <- MCHeader
  NoOne = NoOne
  LastDay = 1
  Kassy = {"k1"}
  Requests = {r1, r2}
  MaxShifts = 2
  MaxDay = 1

SYMMETRY Alike

SPECIFICATION SpecBooks

INVARIANTS
  StockReportsAgree
  SalesReportsAgree
  AbcCoversSales
  MoneyReportsAgree
  AccountsMatchRegisters
  ShiftsCountOnce

CHECK_DEADLOCK FALSE
