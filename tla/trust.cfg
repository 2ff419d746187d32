CONSTANTS
  Writer = {service, daemon}
  MaxRows = 4
  MaxTampers = 2
  Service = service
  NBank = 2
  Amount <- MCAmount
  BankDay <- MCBankDay
  IsoDate = {1, 2}
  OneColumn = TRUE
  LastBankDay = 2
  MaxImports = 2
  MaxReports = 2
SPECIFICATION MCSpec
INVARIANTS BreaksHaveACause EachRowVouches ReportsAddUp
