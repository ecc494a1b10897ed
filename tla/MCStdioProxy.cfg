SPECIFICATION FairSpec
CONSTANTS
  Lines = 3
  MaxOpened = 3
INVARIANTS DispatchedAtMostOnce AnswersAreTrue
PROPERTIES EveryRequestIsSettled
