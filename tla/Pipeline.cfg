SPECIFICATION FairSpec
CONSTANTS
  e1 = e1
  a = a
  p1 = p1
  p2 = p2
  Event = {e1}
  EventName <- MCEventName
  Server = {a}
  Run = {p1, p2}
  ServerOf <- TwoCalls
  Limit = 1
  MAX_RETRIES = 2
  MaxPublishFaults = 1
  ATTEMPTS = 2
  MAX_DLQ_REPROCESS = 1
  MaxStops = 2
  MaxWorkFaults = 1
INVARIANT
  MailsHaveCause
PROPERTY
  SavedIsMailed
