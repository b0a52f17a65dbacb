SPECIFICATION FairSpec
CONSTANT MaxHanded = 3
INVARIANTS
  CauseBeforeEffect
PROPERTIES
  ImplementsService
  NothingSentAfterOutcome
  BothEnd
CHECK_DEADLOCK FALSE
