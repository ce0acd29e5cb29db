SPECIFICATION WsSpec
CONSTANTS
  renewal = renewal
  question = question
  wakeWord = wakeWord
  Setup = Setup
  Supervisor = Supervisor
  Closer = Closer
  None = None
  Senders = {}
  Sessions = {}
  Utterances = {question}
  MaxGeneration = 2
  EarlyUse = FALSE
  CancelCleanup = TRUE
PROPERTIES
  Reconnects
CHECK_DEADLOCK FALSE
