CONSTANTS
  Cases <- SomeCases
  Findings <- SomeFindings
  Contents <- FourBytes
  Undefined <- NoValue
  Disorder = Disorder
  Doubt = Doubt
  StackSize = 8
  LoopNesting = 4
  Garbage = {0, 2}
SPECIFICATION Execution
CHECK_DEADLOCK FALSE
INVARIANTS
  MatchedExact
  StackEmptyAtEnd
PROPERTY
  CodeEnds
