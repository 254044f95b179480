SPECIFICATION ReadsSpec
CONSTANTS
  u1 = u1
  u2 = u2
  r1 = r1
  d1 = d1
  h1 = h1
  s1 = s1
  p1 = p1
  Null = Null
  User = {u1, u2}
  Currency = {"EUR"}
  Wallet = {1, 2}
  Owner <- MCOwner
  CurrencyOf <- MCCurrencyOf
  Amount = {1}
  Key <- MCKey
  Holder = {r1, d1, h1}
  TransferRequest = {r1}
  TransferInputs <- MCTransferInputs
  DepositRequest = {d1}
  DepositInputs <- MCDepositInputs
  Handler = {h1}
  Session = {s1}
  DelayedMethods = FALSE
  Deletable = {u2}
  Opening <- MCOpening
  OpeningKey <- MCOpeningKey
  Reader = {p1}
  Watched = {2}
INVARIANTS
  ReadsTypeOK
  Reconciles
  StaleHasCause
PROPERTIES
  ImplementsBank
