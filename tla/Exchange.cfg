SPECIFICATION ExchangeSpec
CONSTANTS
  None = None
  Links = {l1, l2}
  Sends <- MCSends
  Statuses = {6, 65}
  Fills = {6}
  MaxSends = 2
CHECK_DEADLOCK FALSE
INVARIANTS
  ExchangeTypeOK
  AnswerIsOwn
  ArrivesAlone
  ExecutesWhatWasSent
  DecodedAsBuilt
