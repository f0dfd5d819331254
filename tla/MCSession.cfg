SPECIFICATION FairSpec
CONSTANTS
  MaxContext = 6
  MaxNewTokens = 2
  PromptSizes = {0, 1, 2, 3, 4}
  MaxTurns = 3
  NoRow = NoRow
  Unset = Unset
CHECK_DEADLOCK FALSE
INVARIANTS
  RoomForTheRest
  RowsOfThisTurn
  ReplyIsFed
  HistoryPaired
PROPERTY TurnsEnd
