SPECIFICATION Spec
CONSTANTS
  SEND_RETRY_LIMIT = 3
  RETRY_CONNECTION_LIMIT = 2
  NoDataLimit = 1
  Parts = 2
  Answers <- MCAnswers
  Sample <- MCSample
  StructIndexes = {0, 1, 2, 3, 4, 5, 6, 7, 8, 9}
INVARIANT TypeOK
INVARIANT RunOnce
INVARIANT FieldsInStep
INVARIANT NothingLeft
INVARIANT StorageHolds
INVARIANT AnswerUnderstood
PROPERTY CallReturns
CHECK_DEADLOCK FALSE
