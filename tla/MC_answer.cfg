SPECIFICATION FairAnswerSpec
CONSTANTS
  Stages <- EveryPart
  Kinds <- EveryKind
  Budget = 2
  MaxOuter = 4
  MaxTime = 5
  MaxBytes = 3
  MaxSent = 5
  ReadBudget = 2
  Contracts <- EveryContract
  Schemas <- FewSchemas
  Contents <- FewContents
  EventLists <- FewEventLists
  EventLimit = 4
  Marker = 2
  MaxEvents = 2
INVARIANTS OutcomeIsTrue LeavesClean WholeOrNothing RecordedAsJudged RedactedExactly SnapshotIsAccounted
PROPERTIES EveryReadEnds
CHECK_DEADLOCK FALSE
