SPECIFICATION FairSpec
CONSTANTS
  Devices = {d1, d2}
  Target = d1
  ConfigSections = {"lora", "device"}
  MaxTries = 2
INVARIANTS
  OnlyTargetWritten
  SecurityLast
  ReportIsTrue
  TransactionClosed
PROPERTIES
  Terminates
  KeepsContract
