SPECIFICATION FairSpec
CHECK_DEADLOCK FALSE
CONSTANTS
  j1 = j1
  Job = {j1}
  NameOf <- TransferName
  ATTEMPTS = 2
  MAX_DLQ_REPROCESS = 1
  MaxStops = 2
  MaxFaults = 3
INVARIANTS
  TypeOK
  EveryoneIsTold
  InOnePlace
  AttemptsAreCounted
PROPERTY
  PublishedIsMailed
