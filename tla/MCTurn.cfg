SPECIFICATION TurnSpec
CONSTANTS
  MaxInbox = 3
INVARIANTS
  AbandonedIsCancelled
  HandoffsAgree
  OnlyWholeAnswers
PROPERTIES
  TurnEnds
CHECK_DEADLOCK FALSE
