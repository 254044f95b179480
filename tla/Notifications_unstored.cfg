SPECIFICATION FairSpec
CHECK_DEADLOCK FALSE
CONSTANTS
  j1 = j1
  Job = {j1}
  NameOf <- DepositName
  ATTEMPTS = 3
  MAX_DLQ_REPROCESS = 3
  MaxStops = 0
  MaxFaults = 3
PROPERTY
  FailedIsStored
