\* Three queries requested at any time, all overlaps of the list operations,
\* the LCS started and stopped at any time.
CONSTANTS
  q1 = q1
  q2 = q2
  q3 = q3
  End = End
  Queries <- ThreeQueries
  MayStop = TRUE
SPECIFICATION FairSpec
\* When all queries have been dealt with, the bounded instance stops.
CHECK_DEADLOCK FALSE
INVARIANTS
  NeverTakesDeleted
  NothingLostWithoutRace
PROPERTIES
  SeveredStays
  QueueSpec
  RequestsAreExecuted
