SPECIFICATION WsSpec
CONSTANTS
  renewal = renewal
  question = question
  wakeWord = wakeWord
  Setup = Setup
  Supervisor = Supervisor
  Closer = Closer
  None = None
  Senders = {}
  Sessions = {wakeWord}
  Utterances = {question}
  MaxGeneration = 2
  EarlyUse = TRUE
  CancelCleanup = FALSE
INVARIANTS
  SocketsAreRead
PROPERTIES
  Reconnects
  CloseReturns
CHECK_DEADLOCK FALSE
