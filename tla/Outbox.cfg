SPECIFICATION FairSpec
CONSTANTS
  e1 = e1
  e2 = e2
  a = a
  b = b
  p1 = p1
  p2 = p2
  p3 = p3
  Event = {e1, e2}
  Server = {a, b}
  Run = {p1, p2, p3}
  ServerOf <- MCServerOf
  Limit = 1
  MAX_RETRIES = 3
  MaxFaults = 5
INVARIANTS
  TypeOK
  ProcessedIsPublished
  FlagGuardsOneCall
  DuplicatesHaveCause
PROPERTY
  SavedIsPublished
