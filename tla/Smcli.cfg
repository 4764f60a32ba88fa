SPECIFICATION Spec
CONSTANTS
  Names <- AllNames
  Functions <- AllFunctions
  Lines <- MCLines
  LibraryCalls <- MCLibraryCalls
  Answers <- MCAnswers
  AsyncRetries = 2
  ActivateTries = 2
INVARIANT StoresInBuffer
INVARIANT RequestFilled
INVARIANT ListAsAnnounced
INVARIANT NoNullString
INVARIANT EntriesHavePlaces
INVARIANT HeaderTellsExit
INVARIANT ListedIsServed
PROPERTY Terminates
CHECK_DEADLOCK FALSE
