SPECIFICATION Spec
CONSTANTS
  Callback = {cb1}
  NoCallback = NoCallback
  MaxSamples = 3
INVARIANTS TypeOK NothingRunsAfterDtor
PROPERTIES HandsOver DtorReturnsIfAwake
CHECK_DEADLOCK FALSE
