SPECIFICATION FairSpec
CHECK_DEADLOCK FALSE
CONSTANTS
  u1 = u1
  u2 = u2
  r1 = r1
  r2 = r2
  h1 = h1
  h2 = h2
  s1 = s1
  s2 = s2
  Null = Null
  User <- MCUser
  Currency <- MCCurrency
  Wallet <- MCWallet
  Owner <- MCOwner
  CurrencyOf <- MCCurrencyOf
  Amount <- MCAmount
  Key <- MCKey
  Opening <- MCOpening
  OpeningKey <- MCOpeningKey
  Inputs <- PairInputs
  Request = {r1}
  Handler = {h1}
  Holder = {r1, r2, h1, h2}
  Session = {s1}
  DelayedMethods = TRUE
  Deletable = {}
PROPERTY
  PaidIsCredited
