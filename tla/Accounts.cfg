SPECIFICATION FairSpec
CONSTANTS
  admin = admin
  customer = customer
  newcomer = newcomer
  r1 = r1
  r2 = r2
  Null = Null
  Id = {admin, customer, newcomer}
  Seeded <- MCSeeded
  Email = {"a@", "c@", "n@"}
  Name = {"n1", "n2"}
  Password = {"p1", "p2"}
  Currency = {"EUR"}
  DEFAULT_CURRENCY = "EUR"
  Request = {r1, r2}
  Inputs <- MCInputs
INVARIANTS
  TypeOK
  RowsAreUnique
PROPERTIES
  ChangesAreAuthorised
  RegisteredHasWallet
