SPECIFICATION Spec
CONSTANTS
  Minute = 2
  MaxClock = 10
  Malformed = malformed
  MaxRequests = 2
  RequestCost = 2
  MaxSymbols = 1
INVARIANTS TypeOK ClosedInOrder OrderIDsAreUnique AnsweredOnce
INVARIANTS MinutesIncrease StartsWithTwoMinutes GapOnlyWhenBehind
PROPERTIES AnswersLikeADesk RequestsAnswered ShutdownEnds
CHECK_DEADLOCK FALSE
