CONSTANTS
  Passes = {1, 2, 3}
  Employees = {101, 102}
  Carriers <- MCCarriers
  Returns <- MCReturns
  ExpectedOut <- MCExpectedOut
  Codes <- MCCodes
  Cooldown = 1
  QrLife = 1
SPECIFICATION FairSpec
INVARIANTS NoDoubleScanOfOneCode ScansBelongToPass
PROPERTIES OutsiderGetsIn QrTakenWhileValid
