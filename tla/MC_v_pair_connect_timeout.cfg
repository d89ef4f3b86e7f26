SPECIFICATION AnswerSpec
CONSTANTS
  Stages = {"transport"}
  Kinds <- PairOnly
  Budget = 2
  MaxOuter = 4
  MaxTime = 5
  MaxBytes = 3
  MaxSent = 5
  ReadBudget = 2
  Contracts <- EveryContract
  Schemas <- FewSchemas
  Contents <- FewContents
  EventLists <- FewEventLists
  EventLimit = 4
  Marker = 2
  MaxEvents = 2
INVARIANTS ProtectedFailureIsClosed
CHECK_DEADLOCK FALSE
