SPECIFICATION WsSafety
CONSTANTS
  renewal = renewal
  question = question
  wakeWord = wakeWord
  Setup = Setup
  Supervisor = Supervisor
  Closer = Closer
  None = None
  Senders = {renewal}
  Sessions = {}
  Utterances = {question}
  MaxGeneration = 3
  EarlyUse = FALSE
  CancelCleanup = FALSE
INVARIANTS
  WsTypeOK
  NegotiationIsCurrent
  JobFramesAfterAcceptance
  ConnectedIsWatched
  WaitingUtterancesAreTold
  ClosedForGood
PROPERTIES
  AuthFailureSticks
CHECK_DEADLOCK FALSE
