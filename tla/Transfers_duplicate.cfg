SPECIFICATION Spec
CONSTANTS
  u1 = u1
  u2 = u2
  u3 = u3
  r1 = r1
  r2 = r2
  Null = Null
  User <- MCUser
  Currency <- MCCurrency
  Wallet <- MCWallet
  Owner <- MCOwner
  CurrencyOf <- MCCurrencyOf
  Amount <- MCAmount
  Key <- MCKey
  Holder = {r1, r2}
  Request = {r1, r2}
  Deletable = {u2}
  Opening <- MCOpening
  OpeningKey <- MCOpeningKey
  Inputs <- BroadInputs
SYMMETRY Slots
INVARIANT
  AcceptedIsUnderWay
